---- MODULE Spec2Model ----
(***************************************************************************)
(* Model of the annotation state engine of the 68-keypoints annotation     *)
(* tool (src/keypoint_annotation_tool.py): the live store keypoints_data,   *)
(* the undo/redo stacks, the two annotation file formats, and navigation    *)
(* over the working image sequence.                                         *)
(*                                                                          *)
(* Numbers.  A ratio coordinate is pixel / image_side.  It is held exactly  *)
(* as an integer numerator over the fixed denominator Den = ImgSide * 10^6, *)
(* so 1.0 is Den, the on-disk sentinel -1.0 is -Den and a value with six    *)
(* decimals is a multiple of ImgSide.  Rounding to six decimals (":.6f",    *)
(* round(x, 6)) is Round6, which is not the identity on pixel / ImgSide.    *)
(*                                                                          *)
(* Objects.  Python dicts are objects.  The live dict keypoints_data is     *)
(* modelled by its value; every snapshot in a stack is [val, oid] where oid *)
(* = 0 means "the same object as the live dict" and any other oid names the *)
(* first stack slot that holds the same object (Canon).  An in-place change *)
(* of the live dict changes every snapshot with oid 0 (InPlace).            *)
(***************************************************************************)
EXTENDS Integers, Sequences, FiniteSets, TLC

\* ------------------------------------------------------------ constants

NumKeypoints == 68
TokenCount == 136
max_undo_steps == 10
Million == 1000000

\* ------------------------------------------------------------ bounds

\* Side, in pixels, of every readable image (images are square here).
ImgSide == 3
\* Number of images in the non-empty working directory.
NumImages == 2
\* Handlers run per behaviour of the session specification.
MaxSteps == 4
\* Handlers run per behaviour of the editing specification.
MaxEditSteps == 6
\* Handlers run per behaviour of the history specification, and how many of
\* the first of them may open the directory and place points.
MaxHistSteps == 14
MaxPlaceSteps == 4
\* Handlers run per behaviour of the file specification.
MaxFileSteps == 3

\* The steps of a session of gestures anywhere in the view.
MaxGestureSteps == 4

\* The steps of a session with a reference image of the directory.
MaxRefSteps == 4

\* The runs of the conversion utility on a directory.
MaxConvertSteps == 2

\* Floating point: the bits of the significand (53 in Python) and the
\* largest image side and pixel position converted.
Precision == 6
MaxSide == 24

Den == ImgSide * Million
Sentinel == 0 - Den

KpRange == 1..NumKeypoints

\* ------------------------------------------------------------ numbers

\* f"{v:.6f}" and round(v, 6): the nearest value with six decimals.
Round6(v) == ((2 * v + ImgSide) \div (2 * ImgSide)) * ImgSide

RoundPair(p) == <<Round6(p[1]), Round6(p[2])>>

\* ------------------------------------------------------------ floating point

RECURSIVE Pow2(_)
Pow2(n) == IF n = 0 THEN 1 ELSE 2 * Pow2(n - 1)

\* A float is m * 2^e with m = 0 or 2^(Precision-1) <= m < 2^Precision;
\* the conversions take values that are not negative.
FloatZero == [m |-> 0, e |-> 0]

RECURSIVE FloatOf(_, _, _)
\* The float nearest to (n / d) * 2^e, ties to the even significand.
FloatOf(n, d, e) ==
    IF n = 0 THEN FloatZero
    ELSE IF n < d * Pow2(Precision - 1) THEN FloatOf(2 * n, d, e - 1)
    ELSE IF n >= d * Pow2(Precision) THEN FloatOf(n, 2 * d, e + 1)
    ELSE LET q == n \div d
             rem == n % d
             up == 2 * rem > d \/ (2 * rem = d /\ q % 2 = 1)
             mant == IF up THEN q + 1 ELSE q
         IN  IF mant = Pow2(Precision)
             THEN [m |-> Pow2(Precision - 1), e |-> e + 1]
             ELSE [m |-> mant, e |-> e]

\* The operators / and * of Python floats.
FloatDiv(a, b) == FloatOf(a.m, b.m, a.e - b.e)

FloatMul(a, b) == FloatOf(a.m * b.m, 1, a.e + b.e)

\* MainWindow.pixel_to_ratio with the image size given: x / width,
\* y / height in floating point.
pixel_to_ratio_float(x, y, width, height) ==
    <<FloatDiv(x, width), FloatDiv(y, height)>>

\* A faulty ratio_to_pixel: both components are scaled by the width.
ratio_to_pixel_float_width(ratio_x, ratio_y, width, height) ==
    <<FloatMul(ratio_x, width), FloatMul(ratio_y, width)>>

\* MainWindow.ratio_to_pixel with the image size given: ratio_x * width,
\* ratio_y * height in floating point.
ratio_to_pixel_float(ratio_x, ratio_y, width, height) ==
    <<FloatMul(ratio_x, width), FloatMul(ratio_y, height)>>

\* ------------------------------------------------------------ dict helpers

EmptyStore == <<>>

DictSet(d, k, v) == [i \in (DOMAIN d) \cup {k} |-> IF i = k THEN v ELSE d[i]]

DictDel(d, k) == [i \in (DOMAIN d) \ {k} |-> d[i]]

Last(q) == q[Len(q)]

Front(q) == SubSeq(q, 1, Len(q) - 1)

\* ------------------------------------------------------------ image view

\* ImageView.get_image_size: "none" when pixmap_item is None, "raise" when
\* pixmap_item is a wrapper whose QGraphicsPixmapItem scene.clear() deleted
\* (boundingRect() raises RuntimeError), "ok" otherwise.
get_image_size(pix) ==
    IF pix = "none" THEN "none" ELSE IF pix = "deleted" THEN "raise" ELSE "ok"

\* MainWindow.pixel_to_ratio on a valid size: x / width, y / height.
pixel_to_ratio(p) == <<p[1] * Million, p[2] * Million>>

\* MainWindow.ratio_to_pixel on a valid size: ratio * width, in units of
\* 1 / Million of a pixel.
ratio_to_pixel(r) == <<r[1], r[2]>>

\* ------------------------------------------------------------ files

\* A *.txt annotation file: the whitespace-separated tokens as numbers
\* (numerators over Den); numeric = FALSE when some token is not a number.
NoTxtFile == [exists |-> FALSE, numeric |-> TRUE, coords |-> <<>>]

TxtFile(coords) == [exists |-> TRUE, numeric |-> TRUE, coords |-> coords]

\* A *.json annotation file: parses = FALSE when it is not JSON at all,
\* has_keypoints = FALSE when the object has no 'keypoints' member; an entry
\* is complete when it has its three members id, x and y.
NoJsonFile ==
    [exists |-> FALSE, parses |-> TRUE, has_keypoints |-> TRUE, keypoints |-> <<>>]

JsonFile(kps) ==
    [exists |-> TRUE, parses |-> TRUE, has_keypoints |-> TRUE, keypoints |-> kps]

JsonEntry(id, x, y) == [id |-> id, x |-> x, y |-> y, complete |-> TRUE]

NoMessage == [code |-> "none", actual |-> 0]

Message(code, n) == [code |-> code, actual |-> n]

\* ------------------------------------------------------------ snapshots

\* Renames the object ids of the snapshots: 0 stays (the live dict), any
\* other id becomes the index of the first slot of undo_stack \o redo_stack
\* holding that object.
Canon(us, rs) ==
    LET L == us \o rs
        first(k) ==
            IF L[k].oid = 0 THEN 0
            ELSE CHOOSE j \in 1..k :
                     /\ L[j].oid = L[k].oid
                     /\ \A i \in 1..(j - 1) : L[i].oid # L[k].oid
        fix(k) == [val |-> L[k].val, oid |-> first(k)]
    IN  [undo |-> [k \in 1..Len(us) |-> fix(k)],
         redo |-> [k \in 1..Len(rs) |-> fix(Len(us) + k)]]

\* A faulty snapshot: the live dict itself, not a copy of it.
CopyOf_alias(d) == [val |-> d, oid |-> 0]

\* dict.copy(): a new object with the same content.
CopyOf(d) == [val |-> d, oid |-> 0 - 1]

\* The snapshots after the name keypoints_data is bound to the object of
\* snapshot e: the snapshots that held the old live object no longer hold the
\* live one, those that hold e's object now do.
Rebind(q, e) ==
    [k \in 1..Len(q) |->
        [val |-> q[k].val,
         oid |-> IF q[k].oid = e.oid THEN 0
                 ELSE IF q[k].oid = 0 THEN 0 - 2 ELSE q[k].oid]]

\* An in-place change of the live dict to value d (d[k] = v, del d[k],
\* d.clear()): every snapshot that is the live object changes with it.
Touched(q, d) ==
    [k \in 1..Len(q) |-> IF q[k].oid = 0 THEN [val |-> d, oid |-> 0] ELSE q[k]]

InPlace(s, d) ==
    [s EXCEPT !.keypoints_data = d,
              !.undo_stack = Touched(s.undo_stack, d),
              !.redo_stack = Touched(s.redo_stack, d)]

\* ------------------------------------------------------------ codec

\* A faulty token list: the y token of each id is written before its x token.
EncodeTxt_yx(d) ==
    [j \in 1..TokenCount |->
        LET id == (j + 1) \div 2
        IN  IF id \in DOMAIN d
            THEN Round6(d[id][IF j % 2 = 1 THEN 2 ELSE 1])
            ELSE Sentinel]

\* A faulty token list: the loop stops one id short, as range(1, 68) would.
EncodeTxt_short(d) ==
    [j \in 1..(TokenCount - 2) |->
        LET id == (j + 1) \div 2
        IN  IF id \in DOMAIN d
            THEN Round6(d[id][IF j % 2 = 1 THEN 1 ELSE 2])
            ELSE Sentinel]

\* MainWindow._save_txt_annotations, the token list: ids 1..68 in order, two
\* tokens per id, "-1.000000" twice for an id that is not in the dict.
EncodeTxt(d) ==
    [j \in 1..TokenCount |->
        LET id == (j + 1) \div 2
        IN  IF id \in DOMAIN d
            THEN Round6(d[id][IF j % 2 = 1 THEN 1 ELSE 2])
            ELSE Sentinel]

\* MainWindow._save_json_annotations, the 'keypoints' list.
EncodeJson(d) ==
    [id \in 1..NumKeypoints |->
        IF id \in DOMAIN d
        THEN JsonEntry(id, Round6(d[id][1]), Round6(d[id][2]))
        ELSE JsonEntry(id, Sentinel, Sentinel)]

\* ------------------------------------------------------------ saving

\* A save that treats a failed write as a checkpoint and drops the history.
save_txt_annotations_checkpoint(s, image_path, io) ==
    IF io = "ok"
    THEN [s EXCEPT !.txt_files[image_path] = TxtFile(EncodeTxt(s.keypoints_data)),
                   !.status_label = Message("saved_txt", 0)]
    ELSE [s EXCEPT !.undo_stack = <<>>, !.redo_stack = <<>>,
                   !.message_box = Message("save_txt_failed", 0)]

\* MainWindow._save_txt_annotations; io = "fail" when open(..., 'w') raises.
save_txt_annotations(s, image_path, io) ==
    IF io = "ok"
    THEN [s EXCEPT !.txt_files[image_path] = TxtFile(EncodeTxt(s.keypoints_data)),
                   !.status_label = Message("saved_txt", 0)]
    ELSE [s EXCEPT !.message_box = Message("save_txt_failed", 0)]

\* MainWindow._save_json_annotations.
save_json_annotations(s, image_path, io) ==
    IF io = "ok"
    THEN [s EXCEPT !.json_files[image_path] = JsonFile(EncodeJson(s.keypoints_data)),
                   !.status_label = Message("saved_json", 0)]
    ELSE [s EXCEPT !.message_box = Message("save_json_failed", 0)]

\* MainWindow.save_annotations.
save_annotations(s, io) ==
    IF s.current_image_index < 0 \/ s.current_image_index >= Len(s.image_files)
    THEN s
    ELSE LET image_path == s.image_files[s.current_image_index + 1]
         IN  IF s.annotation_format = "json"
             THEN save_json_annotations(s, image_path, io)
             ELSE save_txt_annotations(s, image_path, io)

\* ------------------------------------------------------------ loading

\* The body of the loops of _load_txt_annotations and _load_json_annotations
\* for one point that is not a sentinel: "raise" leaves the loop through the
\* except clause, "skip" is the continue after a failed conversion.
LoadPoint(s, kp_id, r) ==
    LET size == get_image_size(s.pixmap_item)
    IN  IF size = "raise" THEN [how |-> "raise", s |-> s]
        ELSE IF size = "none" THEN [how |-> "skip", s |-> s]
        ELSE [how |-> "stored",
              s |-> [InPlace(s, DictSet(s.keypoints_data, kp_id, r))
                        EXCEPT !.view_keypoints =
                                   DictSet(@, kp_id, ratio_to_pixel(r))]]

RECURSIVE LoadTxtFrom(_, _, _, _)
\* The loop "for i in range(68)" of _load_txt_annotations from index i on.
LoadTxtFrom(s, coords, i, loaded_count) ==
    IF i = NumKeypoints
    THEN [s EXCEPT !.status_label = Message("loaded_txt", loaded_count)]
    ELSE LET ratio_x == coords[i * 2 + 1]
             ratio_y == coords[i * 2 + 2]
             got == LoadPoint(s, i + 1, <<ratio_x, ratio_y>>)
         IN  IF ratio_x < 0 \/ ratio_y < 0
             THEN LoadTxtFrom(s, coords, i + 1, loaded_count)
             ELSE IF got.how = "raise"
             THEN [s EXCEPT !.message_box = Message("txt_load_failed", 0)]
             ELSE IF got.how = "skip"
             THEN LoadTxtFrom(s, coords, i + 1, loaded_count)
             ELSE LoadTxtFrom(got.s, coords, i + 1, loaded_count + 1)

\* A faulty loader: the token count is not tested, the pairs that the file
\* holds in full are loaded and the ids beyond them count as not annotated.
load_txt_annotations_uncounted(s, f) ==
    IF ~f.numeric
    THEN [s EXCEPT !.message_box = Message("txt_load_failed", 0)]
    ELSE LoadTxtFrom(s,
             [j \in 1..TokenCount |->
                 IF j <= 2 * (Len(f.coords) \div 2) THEN f.coords[j]
                 ELSE Sentinel],
             0, 0)

\* MainWindow._load_txt_annotations.
load_txt_annotations(s, f) ==
    IF ~f.numeric
    THEN [s EXCEPT !.message_box = Message("txt_load_failed", 0)]
    ELSE IF Len(f.coords) # TokenCount
    THEN [s EXCEPT !.message_box = Message("txt_format_error", Len(f.coords))]
    ELSE LoadTxtFrom(s, f.coords, 0, 0)

RECURSIVE LoadJsonFrom(_, _, _, _)
\* The loop "for kp in keypoints" of _load_json_annotations from entry k on.
LoadJsonFrom(s, keypoints, k, loaded_count) ==
    IF k > Len(keypoints)
    THEN [s EXCEPT !.status_label = Message("loaded_json", loaded_count)]
    ELSE LET kp == keypoints[k]
             got == LoadPoint(s, kp.id, <<kp.x, kp.y>>)
         IN  IF ~kp.complete
             THEN [s EXCEPT !.message_box = Message("json_load_failed", 0)]
             ELSE IF kp.x < 0 \/ kp.y < 0
             THEN LoadJsonFrom(s, keypoints, k + 1, loaded_count)
             ELSE IF got.how = "raise"
             THEN [s EXCEPT !.message_box = Message("json_load_failed", 0)]
             ELSE IF got.how = "skip"
             THEN LoadJsonFrom(s, keypoints, k + 1, loaded_count)
             ELSE LoadJsonFrom(got.s, keypoints, k + 1, loaded_count + 1)

\* MainWindow._load_json_annotations.
load_json_annotations(s, f) ==
    IF ~f.parses
    THEN [s EXCEPT !.message_box = Message("json_load_failed", 0)]
    ELSE LoadJsonFrom(s, IF f.has_keypoints THEN f.keypoints ELSE <<>>, 1, 0)

\* MainWindow.load_annotations.
load_annotations(s, image_path) ==
    LET cleared == [InPlace(s, EmptyStore) EXCEPT !.view_keypoints = <<>>]
    IN  IF s.annotation_format = "json"
        THEN IF s.json_files[image_path].exists
             THEN load_json_annotations(cleared, s.json_files[image_path])
             ELSE [cleared EXCEPT !.status_label = Message("no_json_file", 0)]
        ELSE IF s.txt_files[image_path].exists
             THEN load_txt_annotations(cleared, s.txt_files[image_path])
             ELSE [cleared EXCEPT !.status_label = Message("no_txt_file", 0)]

\* ImageView.load_image: scene.clear() deletes the items, the pixmap item
\* included; pixmap_item is only assigned when the file is a readable image.
load_image(s, image_path) ==
    [s EXCEPT !.view_keypoints = <<>>,
              !.pixmap_item =
                  IF s.readable[image_path] THEN "valid"
                  ELSE IF s.pixmap_item = "none" THEN "none" ELSE "deleted"]

\* MainWindow.load_current_image.
load_current_image(s) ==
    IF s.current_image_index < 0 \/ s.current_image_index >= Len(s.image_files)
    THEN s
    ELSE LET image_path == s.image_files[s.current_image_index + 1]
             loaded == load_annotations(load_image(s, image_path), image_path)
         IN  [loaded EXCEPT !.undo_stack = <<>>, !.redo_stack = <<>>,
                            !.recorded = <<>>, !.since = "load"]

\* ------------------------------------------------------------ history

\* A faulty save_state: the redo stack is not cleared.
save_state_keeps_redo(s) ==
    LET pushed == Append(s.undo_stack, CopyOf(s.keypoints_data))
        kept == IF Len(pushed) > max_undo_steps THEN Tail(pushed) ELSE pushed
        c == Canon(kept, s.redo_stack)
    IN  [s EXCEPT !.undo_stack = c.undo,
                  !.redo_stack = c.redo,
                  !.recorded = Append(@, s.keypoints_data)]

\* A faulty save_state: a full undo stack drops the new snapshot, not the
\* oldest one.
save_state_drops_newest(s) ==
    LET pushed == Append(s.undo_stack, CopyOf(s.keypoints_data))
        kept == IF Len(pushed) > max_undo_steps THEN Front(pushed) ELSE pushed
    IN  [s EXCEPT !.undo_stack = Canon(kept, <<>>).undo,
                  !.redo_stack = <<>>,
                  !.recorded = Append(@, s.keypoints_data)]

\* MainWindow.save_state.
save_state(s) ==
    LET pushed == Append(s.undo_stack, CopyOf(s.keypoints_data))
        kept == IF Len(pushed) > max_undo_steps THEN Tail(pushed) ELSE pushed
    IN  [s EXCEPT !.undo_stack = Canon(kept, <<>>).undo,
                  !.redo_stack = <<>>,
                  !.recorded = Append(@, s.keypoints_data)]

\* An unhandled exception in a slot: PyQt5 ends the process (qFatal).
Crash(s) == [s EXCEPT !.running = FALSE]

\* The redraw loop of undo, redo and swap_keypoints over the restored dict.
\* checked is TRUE for undo and redo, which skip a point whose conversion
\* returned None; swap_keypoints passes the None on to add_keypoint, which
\* raises TypeError.
Redraw(s, checked) ==
    LET size == get_image_size(s.pixmap_item)
    IN  IF s.keypoints_data = EmptyStore
        THEN [s EXCEPT !.view_keypoints = <<>>]
        ELSE IF size = "raise" THEN Crash([s EXCEPT !.view_keypoints = <<>>])
        ELSE IF size = "none"
        THEN IF checked THEN [s EXCEPT !.view_keypoints = <<>>]
             ELSE Crash([s EXCEPT !.view_keypoints = <<>>])
        ELSE [s EXCEPT !.view_keypoints =
                 [k \in DOMAIN s.keypoints_data |->
                     ratio_to_pixel(s.keypoints_data[k])]]

\* A faulty undo: the current store is not pushed onto the redo stack.
undo_without_redo(s) ==
    IF s.undo_stack # <<>>
    THEN LET e == Last(s.undo_stack)
             c == Canon(Rebind(Front(s.undo_stack), e), Rebind(s.redo_stack, e))
             restored == [s EXCEPT !.keypoints_data = e.val,
                                   !.undo_stack = c.undo,
                                   !.redo_stack = c.redo,
                                   !.recorded = <<>>, !.since = "undo"]
             drawn == Redraw(restored, TRUE)
         IN  IF drawn.running
             THEN [drawn EXCEPT !.status_label = Message("undone", 0)]
             ELSE drawn
    ELSE [s EXCEPT !.status_label = Message("nothing_to_undo", 0)]

\* MainWindow.undo.
undo(s) ==
    IF s.undo_stack # <<>>
    THEN LET e == Last(s.undo_stack)
             rs == Append(s.redo_stack, CopyOf(s.keypoints_data))
             c == Canon(Rebind(Front(s.undo_stack), e), Rebind(rs, e))
             restored == [s EXCEPT !.keypoints_data = e.val,
                                   !.undo_stack = c.undo,
                                   !.redo_stack = c.redo,
                                   !.recorded = <<>>, !.since = "undo"]
             drawn == Redraw(restored, TRUE)
         IN  IF drawn.running
             THEN [drawn EXCEPT !.status_label = Message("undone", 0)]
             ELSE drawn
    ELSE [s EXCEPT !.status_label = Message("nothing_to_undo", 0)]

\* A faulty redo: with nothing to redo it empties the undo stack.
redo_drops_history(s) ==
    IF s.redo_stack # <<>>
    THEN LET e == Last(s.redo_stack)
             us == Append(s.undo_stack, CopyOf(s.keypoints_data))
             c == Canon(Rebind(us, e), Rebind(Front(s.redo_stack), e))
             restored == [s EXCEPT !.keypoints_data = e.val,
                                   !.undo_stack = c.undo,
                                   !.redo_stack = c.redo,
                                   !.recorded = <<>>, !.since = "redo"]
             drawn == Redraw(restored, TRUE)
         IN  IF drawn.running
             THEN [drawn EXCEPT !.status_label = Message("redone", 0)]
             ELSE drawn
    ELSE [s EXCEPT !.undo_stack = <<>>,
                   !.status_label = Message("nothing_to_redo", 0)]

\* A faulty redo: the snapshot restored stays on the redo stack.
redo_keeps_entry(s) ==
    IF s.redo_stack # <<>>
    THEN LET e == Last(s.redo_stack)
             us == Append(s.undo_stack, CopyOf(s.keypoints_data))
             c == Canon(Rebind(us, e), Rebind(s.redo_stack, e))
             restored == [s EXCEPT !.keypoints_data = e.val,
                                   !.undo_stack = c.undo,
                                   !.redo_stack = c.redo,
                                   !.recorded = <<>>, !.since = "redo"]
             drawn == Redraw(restored, TRUE)
         IN  IF drawn.running
             THEN [drawn EXCEPT !.status_label = Message("redone", 0)]
             ELSE drawn
    ELSE [s EXCEPT !.status_label = Message("nothing_to_redo", 0)]

\* MainWindow.redo.
redo(s) ==
    IF s.redo_stack # <<>>
    THEN LET e == Last(s.redo_stack)
             us == Append(s.undo_stack, CopyOf(s.keypoints_data))
             c == Canon(Rebind(us, e), Rebind(Front(s.redo_stack), e))
             restored == [s EXCEPT !.keypoints_data = e.val,
                                   !.undo_stack = c.undo,
                                   !.redo_stack = c.redo,
                                   !.recorded = <<>>, !.since = "redo"]
             drawn == Redraw(restored, TRUE)
         IN  IF drawn.running
             THEN [drawn EXCEPT !.status_label = Message("redone", 0)]
             ELSE drawn
    ELSE [s EXCEPT !.status_label = Message("nothing_to_redo", 0)]

\* ------------------------------------------------------------ mutations

\* A faulty body: the result of the conversion is not tested, and without a
\* size of the image the pixel position itself is stored.
StorePixel_unchecked(s, kp_id, p) ==
    LET saved == save_state(s)
        size == get_image_size(s.pixmap_item)
    IN  IF size = "raise" THEN Crash(saved)
        ELSE IF size = "none"
        THEN InPlace(saved, DictSet(saved.keypoints_data, kp_id,
                                    <<p[1] * Den, p[2] * Den>>))
        ELSE InPlace(saved, DictSet(saved.keypoints_data, kp_id, pixel_to_ratio(p)))

\* The common body of on_keypoint_added and on_keypoint_moved: save_state,
\* pixel_to_ratio, then the assignment keypoints_data[kp_id] = (rx, ry).
StorePixel(s, kp_id, p) ==
    LET saved == save_state(s)
        size == get_image_size(s.pixmap_item)
    IN  IF size = "raise" THEN Crash(saved)
        ELSE IF size = "none"
        THEN [saved EXCEPT !.status_label = Message("cannot_store_point", 0)]
        ELSE InPlace(saved, DictSet(saved.keypoints_data, kp_id, pixel_to_ratio(p)))

\* MainWindow.on_keypoint_added.
on_keypoint_added(s, kp_id, p) == StorePixel(s, kp_id, p)

\* MainWindow.on_keypoint_moved.
on_keypoint_moved(s, kp_id, p) == StorePixel(s, kp_id, p)

\* MainWindow.on_list_item_clicked.
on_list_item_clicked(s, kp_id) ==
    IF kp_id \in DOMAIN s.keypoints_data
    THEN s
    ELSE [s EXCEPT !.adding_keypoint_id = kp_id,
                   !.status_label = Message("click_to_add", kp_id)]

\* ImageView.mousePressEvent, left button, with adding_keypoint_id set: the
\* item is placed at the click, keypoint_added is emitted, the mode is left.
mousePressEvent(s, p) ==
    LET placed == [s EXCEPT !.view_keypoints =
                       DictSet(@, s.adding_keypoint_id,
                               <<p[1] * Million, p[2] * Million>>)]
        added == on_keypoint_added(placed, s.adding_keypoint_id, p)
    IN  IF added.running
        THEN [added EXCEPT !.adding_keypoint_id = 0]
        ELSE added

Abs(n) == IF n < 0 THEN 0 - n ELSE n

\* ImageView.mouseReleaseEvent followed by the item's mouseReleaseEvent at
\* the end of a drag of item kp_id to pixel p.  Both compare the item's
\* position with the one it had at the press and emit keypoint_moved when it
\* moved by more than one pixel on an axis; the view does so only when its
\* mousePressEvent found the item under the pointer (tracked).
mouseReleaseEvent(s, kp_id, p, tracked) ==
    LET start == s.view_keypoints[kp_id]
        pos == <<p[1] * Million, p[2] * Million>>
        dx == Abs(pos[1] - start[1])
        dy == Abs(pos[2] - start[2])
        dragged == [s EXCEPT !.view_keypoints[kp_id] = pos]
        once == on_keypoint_moved(dragged, kp_id, p)
    IN  IF dx > Million \/ dy > Million
        THEN IF tracked /\ once.running
             THEN on_keypoint_moved(once, kp_id, p)
             ELSE once
        ELSE dragged

\* A faulty delete: the auto-save that the source has commented out is done.
delete_selected_keypoint_saving(s, kp_id) ==
    IF kp_id \in DOMAIN s.keypoints_data
    THEN LET saved == save_state(s)
             deleted == InPlace(saved, DictDel(saved.keypoints_data, kp_id))
             kept == IF deleted.auto_save THEN save_annotations(deleted, "ok")
                     ELSE deleted
         IN  [kept EXCEPT !.view_keypoints = DictDel(@, kp_id),
                          !.status_label = Message("deleted", kp_id)]
    ELSE s

\* MainWindow.delete_selected_keypoint with row kp_id - 1 current.
delete_selected_keypoint(s, kp_id) ==
    IF kp_id \in DOMAIN s.keypoints_data
    THEN LET saved == save_state(s)
             deleted == InPlace(saved, DictDel(saved.keypoints_data, kp_id))
         IN  [deleted EXCEPT !.view_keypoints = DictDel(@, kp_id),
                             !.status_label = Message("deleted", kp_id)]
    ELSE s

\* A faulty exchange: with one of the two ids absent, the coordinate of the
\* other is dropped.
SwapEntries_naive(d, id1, id2) ==
    IF id1 \in DOMAIN d /\ id2 \in DOMAIN d
    THEN DictSet(DictSet(d, id1, d[id2]), id2, d[id1])
    ELSE IF id1 \in DOMAIN d
    THEN DictDel(d, id1)
    ELSE IF id2 \in DOMAIN d
    THEN DictDel(d, id2)
    ELSE d

\* A faulty exchange: with one of the two ids absent, the coordinate is
\* copied to the absent id and the entry it came from is not deleted.
SwapEntries_copy(d, id1, id2) ==
    IF id1 \in DOMAIN d /\ id2 \in DOMAIN d
    THEN DictSet(DictSet(d, id1, d[id2]), id2, d[id1])
    ELSE IF id1 \in DOMAIN d
    THEN DictSet(d, id2, d[id1])
    ELSE IF id2 \in DOMAIN d
    THEN DictSet(d, id1, d[id2])
    ELSE d

\* A faulty exchange: with both ids present the second assignment reads the
\* entry the first one has just overwritten, so both ids end with the
\* coordinate of id2.
SwapEntries_overwrite(d, id1, id2) ==
    IF id1 \in DOMAIN d /\ id2 \in DOMAIN d
    THEN LET first == DictSet(d, id1, d[id2])
         IN  DictSet(first, id2, first[id1])
    ELSE IF id1 \in DOMAIN d
    THEN DictDel(DictSet(d, id2, d[id1]), id1)
    ELSE IF id2 \in DOMAIN d
    THEN DictDel(DictSet(d, id1, d[id2]), id2)
    ELSE d

\* The exchange of the two entries in swap_keypoints.
SwapEntries(d, id1, id2) ==
    IF id1 \in DOMAIN d /\ id2 \in DOMAIN d
    THEN DictSet(DictSet(d, id1, d[id2]), id2, d[id1])
    ELSE IF id1 \in DOMAIN d
    THEN DictDel(DictSet(d, id2, d[id1]), id1)
    ELSE IF id2 \in DOMAIN d
    THEN DictDel(DictSet(d, id1, d[id2]), id2)
    ELSE d

\* MainWindow.swap_keypoints.
swap_keypoints(s, id1, id2) ==
    LET saved == save_state(s)
        swapped == InPlace(saved, SwapEntries(saved.keypoints_data, id1, id2))
        drawn == Redraw(swapped, FALSE)
    IN  IF drawn.running
        THEN [drawn EXCEPT !.status_label = Message("swapped", id1)]
        ELSE drawn

\* MainWindow.clear_annotations; reply is the answer to the question box.
clear_annotations(s, reply) ==
    IF reply = "yes"
    THEN [InPlace(save_state(s), EmptyStore)
              EXCEPT !.view_keypoints = <<>>,
                     !.status_label = Message("cleared", 0)]
    ELSE s

\* ------------------------------------------------------------ navigation

\* A queued input event: a mouse release ending a drag, or a key press A / D.
ReleaseEvent(kp_id, p, tracked) ==
    [type |-> "release", kp_id |-> kp_id, p |-> p, tracked |-> tracked]

KeyEvent(type) == [type |-> type, kp_id |-> 0, p |-> <<0, 0>>, tracked |-> FALSE]

RECURSIVE processEvents(_, _, _)
RECURSIVE Advance(_, _, _, _)

\* QApplication.processEvents() with the events of q waiting: each is
\* dispatched to its handler in turn; a handler that itself calls
\* processEvents() takes the rest of the queue.
processEvents(s, q, io) ==
    IF q = <<>> \/ ~s.running THEN s
    ELSE LET ev == Head(q)
         IN  IF ev.type = "release"
             THEN processEvents(
                      IF ev.kp_id \in DOMAIN s.view_keypoints
                          /\ s.adding_keypoint_id = 0
                      THEN mouseReleaseEvent(s, ev.kp_id, ev.p, ev.tracked)
                      ELSE s,
                      Tail(q), io)
             ELSE LET step == IF ev.type = "next" THEN 1 ELSE 0 - 1
                      inside == IF step = 1
                                THEN s.current_image_index < Len(s.image_files) - 1
                                ELSE s.current_image_index > 0
                  IN  IF inside THEN Advance(s, step, Tail(q), io)
                      ELSE processEvents(s, Tail(q), io)

\* A faulty body of previous_image and next_image: the index is changed
\* before the auto-save.
Advance_then_save(s, step, q, io) ==
    LET drained == processEvents(s, q, io)
        moved == [drained EXCEPT !.current_image_index = @ + step]
        saved == IF moved.auto_save THEN save_annotations(moved, io) ELSE moved
    IN  IF ~drained.running THEN drained
        ELSE load_current_image(saved)

\* A faulty body of previous_image and next_image: the auto-save is done
\* before the event queue is drained.
Advance_save_first(s, step, q, io) ==
    LET saved == IF s.auto_save THEN save_annotations(s, io) ELSE s
        drained == processEvents(saved, q, io)
    IN  IF ~drained.running THEN drained
        ELSE load_current_image(
                 [drained EXCEPT !.current_image_index = @ + step])

\* The body of previous_image (step = -1) and next_image (step = 1) once the
\* boundary test has passed: drain the event queue, save when auto_save is
\* set, change the index, load.
Advance(s, step, q, io) ==
    LET drained == processEvents(s, q, io)
        saved == IF drained.auto_save THEN save_annotations(drained, io)
                 ELSE drained
    IN  IF ~drained.running THEN drained
        ELSE load_current_image(
                 [saved EXCEPT !.current_image_index = @ + step])

\* A faulty previous_image: the boundary test lets index 0 through.
previous_image_from_first(s, q, io) ==
    IF s.current_image_index >= 0 THEN Advance(s, 0 - 1, q, io) ELSE s

\* MainWindow.previous_image.
previous_image(s, q, io) ==
    IF s.current_image_index > 0 THEN Advance(s, 0 - 1, q, io) ELSE s

\* MainWindow.next_image.
next_image(s, q, io) ==
    IF s.current_image_index < Len(s.image_files) - 1
    THEN Advance(s, 1, q, io)
    ELSE s

\* The sorted image files of a directory.
ImagesOf(dir) == IF dir = "images" THEN [i \in 1..NumImages |-> i] ELSE <<>>

\* MainWindow.load_images_from_directory.
load_images_from_directory(s, dir) ==
    LET listed == [s EXCEPT !.image_files = ImagesOf(dir)]
    IN  IF listed.image_files # <<>>
        THEN [load_current_image([listed EXCEPT !.current_image_index = 0])
                 EXCEPT !.status_label = Message("images_loaded", Len(listed.image_files))]
        ELSE [listed EXCEPT !.message_box = Message("no_images", 0)]

\* A faulty format switch: the format is changed before the store is saved.
toggle_annotation_format_switch_first(s, reply, io) ==
    LET switched == [s EXCEPT
                        !.annotation_format = IF @ = "txt" THEN "json" ELSE "txt"]
        saved == IF s.current_image_index >= 0 /\ s.keypoints_data # EmptyStore
                    /\ (s.auto_save \/ reply = "yes")
                 THEN save_annotations(switched, io)
                 ELSE switched
        told == [saved EXCEPT !.status_label = Message("format_switched", 0)]
    IN  IF told.current_image_index >= 0
            /\ told.current_image_index < Len(told.image_files)
        THEN load_annotations(told, told.image_files[told.current_image_index + 1])
        ELSE told

\* A faulty format switch: the image is loaded anew, which empties the undo
\* stack and the redo stack.
toggle_annotation_format_reloading(s, reply, io) ==
    LET saved == IF s.current_image_index >= 0 /\ s.keypoints_data # EmptyStore
                    /\ (s.auto_save \/ reply = "yes")
                 THEN save_annotations(s, io)
                 ELSE s
        switched == [saved EXCEPT
                        !.annotation_format = IF @ = "txt" THEN "json" ELSE "txt",
                        !.status_label = Message("format_switched", 0)]
    IN  load_current_image(switched)

\* MainWindow.toggle_annotation_format; reply answers the question box that
\* is shown when auto_save is off.
toggle_annotation_format(s, reply, io) ==
    LET saved == IF s.current_image_index >= 0 /\ s.keypoints_data # EmptyStore
                    /\ (s.auto_save \/ reply = "yes")
                 THEN save_annotations(s, io)
                 ELSE s
        switched == [saved EXCEPT
                        !.annotation_format = IF @ = "txt" THEN "json" ELSE "txt",
                        !.status_label = Message("format_switched", 0)]
    IN  IF switched.current_image_index >= 0
            /\ switched.current_image_index < Len(switched.image_files)
        THEN load_annotations(switched,
                 switched.image_files[switched.current_image_index + 1])
        ELSE switched

\* MainWindow.toggle_auto_save.
toggle_auto_save(s, enabled) == [s EXCEPT !.auto_save = enabled]

\* The loop "for kp in keypoints" of load_reference_image: every entry is
\* kept under its id, negative components included, a later entry of an id
\* replacing an earlier one; an entry without id, x or y raises and ends the
\* loop, the entries before it are kept.
ReferenceEntries(keypoints) ==
    LET bad == {k \in 1..Len(keypoints) : ~keypoints[k].complete}
        n == IF bad = {} THEN Len(keypoints)
             ELSE (CHOOSE k \in bad : \A j \in bad : k <= j) - 1
        Place(id) == CHOOSE k \in 1..n :
                         /\ keypoints[k].id = id
                         /\ \A j \in 1..n : keypoints[j].id = id => j <= k
    IN  [d |-> [id \in {keypoints[k].id : k \in 1..n} |->
                   <<keypoints[Place(id)].x, keypoints[Place(id)].y>>],
         raised |-> bad # {}]

\* MainWindow.load_reference_image for an image file that QPixmap can read:
\* the path is kept and reference_keypoints is filled from the *.json file
\* beside the image.
load_reference_image(s, image_path) ==
    LET f == s.json_files[image_path]
        chosen == [s EXCEPT !.reference_image_path = image_path,
                            !.reference_keypoints = EmptyStore]
        got == ReferenceEntries(IF f.has_keypoints THEN f.keypoints ELSE <<>>)
    IN  IF ~f.exists
        THEN [chosen EXCEPT !.status_label = Message("reference_no_json", 0)]
        ELSE IF ~f.parses
        THEN [chosen EXCEPT !.status_label = Message("reference_json_failed", 0)]
        ELSE [chosen EXCEPT !.reference_keypoints = got.d,
                            !.status_label =
                                IF got.raised
                                THEN Message("reference_json_failed", 0)
                                ELSE Message("reference_loaded", Len(f.keypoints))]

\* A faulty closeEvent: the window closes without the save.
closeEvent_unsaved(s, io) ==
    [s EXCEPT !.running = FALSE]

\* MainWindow.closeEvent: the window closes and the process ends.
closeEvent(s, io) ==
    [(IF s.auto_save /\ s.current_image_index >= 0
      THEN save_annotations(s, io) ELSE s) EXCEPT !.running = FALSE]

\* ------------------------------------------------------------ conversion utility

\* The wording of the two messages for a wrong number of coordinates, in
\* English, {n} standing for the number found: the warning box of
\* _load_txt_annotations and the line printed by convert_txt_to_json.
MessageText(code) ==
    CASE code = "txt_format_error" ->
             "TXT file format error: should contain 136 coordinate values, actual {n}"
      [] code = "count_incorrect" ->
             "coordinate count incorrect: {n}, expected 136 (68 points x2)"
      [] OTHER -> code

\* convert_txt_to_json of convert_txt_to_json.py for the *.txt file f: the
\* result, the line printed and the *.json file written; io = "fail" when
\* the *.json file cannot be written.
convert_txt_to_json(f, io) ==
    IF ~f.numeric
    THEN [ok |-> FALSE, printed |-> Message("convert_failed", 0),
          json |-> NoJsonFile]
    ELSE IF Len(f.coords) # TokenCount
    THEN [ok |-> FALSE, printed |-> Message("count_incorrect", Len(f.coords)),
          json |-> NoJsonFile]
    ELSE IF io = "fail"
    THEN [ok |-> FALSE, printed |-> Message("convert_failed", 0),
          json |-> NoJsonFile]
    ELSE [ok |-> TRUE, printed |-> Message("converted", 0),
          json |-> JsonFile([i \in 1..NumKeypoints |->
                                JsonEntry(i, Round6(f.coords[2 * i - 1]),
                                          Round6(f.coords[2 * i]))])]

\* batch_convert over the *.txt files of the directory, each beside its
\* image: the *.json files written and the two counts printed at the end.
batch_convert(s, io) ==
    LET found == {i \in DOMAIN s.txt_files : s.txt_files[i].exists}
        done == {i \in found : convert_txt_to_json(s.txt_files[i], io).ok}
    IN  [s |-> [s EXCEPT !.json_files =
                    [i \in DOMAIN s.json_files |->
                        IF i \in done
                        THEN convert_txt_to_json(s.txt_files[i], io).json
                        ELSE s.json_files[i]]],
         success_count |-> Cardinality(done),
         fail_count |-> Cardinality(found \ done)]

\* ------------------------------------------------------------ state

VARIABLES
    image_files,          \* MainWindow.image_files, as image numbers
    current_image_index,  \* MainWindow.current_image_index
    keypoints_data,       \* MainWindow.keypoints_data
    auto_save,            \* MainWindow.auto_save
    annotation_format,    \* MainWindow.annotation_format
    undo_stack,           \* MainWindow.undo_stack, bottom first
    redo_stack,           \* MainWindow.redo_stack, bottom first
    pixmap_item,          \* ImageView.pixmap_item: "none", "valid", "deleted"
    view_keypoints,       \* ImageView.keypoints: id -> item position
    adding_keypoint_id,   \* ImageView.adding_keypoint_id, 0 for None
    txt_files,            \* the *.txt file beside each image
    json_files,           \* the *.json file beside each image
    readable,             \* whether QPixmap can read each image file
    reference_image_path, \* MainWindow.reference_image_path, 0 for None
    reference_keypoints,  \* MainWindow.reference_keypoints
    conversion,           \* a call of pixel_to_ratio or ratio_to_pixel on
                          \* floats: image size, argument and result
    running,              \* FALSE once the process has ended
    since,                \* history variable: what last replaced the store,
                          \* "start", "load", "undo" or "redo"
    recorded,             \* history variable: the dicts save_state copied
                          \* since then
    steps,                \* history variable: handlers run so far
    lastOp                \* history variable: the handler that ran last

vars == <<image_files, current_image_index, keypoints_data, auto_save,
          annotation_format, undo_stack, redo_stack, pixmap_item,
          view_keypoints, adding_keypoint_id,
          txt_files, json_files, readable, reference_image_path,
          reference_keypoints, conversion, running, since, recorded, steps,
          lastOp>>

Images == 1..NumImages

\* The program state as one record, the argument of the handlers.  The two
\* fields status_label and message_box are what a handler shows the user
\* (the text it sets on the status bar, the QMessageBox it raises); no
\* handler reads them, so they are results of a handler and are not kept.
S ==
    [image_files |-> image_files, current_image_index |-> current_image_index,
     keypoints_data |-> keypoints_data, auto_save |-> auto_save,
     annotation_format |-> annotation_format, undo_stack |-> undo_stack,
     redo_stack |-> redo_stack, pixmap_item |-> pixmap_item,
     view_keypoints |-> view_keypoints, adding_keypoint_id |-> adding_keypoint_id,
     status_label |-> Message("unchanged", 0), message_box |-> NoMessage,
     txt_files |-> txt_files, json_files |-> json_files, readable |-> readable,
     reference_image_path |-> reference_image_path,
     reference_keypoints |-> reference_keypoints,
     running |-> running, since |-> since, recorded |-> recorded]

\* A call of the conversion named by of for an image of width x height
\* pixels that has not returned yet.
Call(of, width, height, arg) ==
    [of |-> of, width |-> width, height |-> height, arg |-> arg,
     returned |-> FALSE, result |-> <<FloatZero, FloatZero>>]

\* No conversion on floats is under way.
NoConversion == Call("none", 0, 0, <<FloatZero, FloatZero>>)

\* The step of a handler that runs from state S to state t.
Becomes(t, op, budget) ==
    /\ running
    /\ steps < budget
    /\ image_files' = t.image_files
    /\ current_image_index' = t.current_image_index
    /\ keypoints_data' = t.keypoints_data
    /\ auto_save' = t.auto_save
    /\ annotation_format' = t.annotation_format
    /\ undo_stack' = t.undo_stack
    /\ redo_stack' = t.redo_stack
    /\ pixmap_item' = t.pixmap_item
    /\ view_keypoints' = t.view_keypoints
    /\ adding_keypoint_id' = t.adding_keypoint_id
    /\ txt_files' = t.txt_files
    /\ json_files' = t.json_files
    /\ readable' = t.readable
    /\ reference_image_path' = t.reference_image_path
    /\ reference_keypoints' = t.reference_keypoints
    /\ conversion' = conversion
    /\ running' = t.running
    /\ since' = t.since
    /\ recorded' = t.recorded
    /\ steps' = steps + 1
    /\ lastOp' = op

\* MainWindow.__init__, with the annotation files disk holds and the image
\* files QPixmap can read; the default reference image is not found.
StartedWith(disk, rd, call) ==
    /\ image_files = <<>>
    /\ current_image_index = 0 - 1
    /\ keypoints_data = EmptyStore
    /\ auto_save = TRUE
    /\ annotation_format = "txt"
    /\ undo_stack = <<>>
    /\ redo_stack = <<>>
    /\ pixmap_item = "none"
    /\ view_keypoints = <<>>
    /\ adding_keypoint_id = 0
    /\ txt_files = disk.txt
    /\ json_files = disk.json
    /\ readable = rd
    /\ reference_image_path = 0
    /\ reference_keypoints = EmptyStore
    /\ conversion = call
    /\ running = TRUE
    /\ since = "start"
    /\ recorded = <<>>
    /\ steps = 0
    /\ lastOp = "start"

\* MainWindow.__init__ with no conversion on floats under way.
Started(disk, rd) == StartedWith(disk, rd, NoConversion)

\* ------------------------------------------------------------ inputs

\* The keypoint ids the user works with.
KpIds == {1, NumKeypoints}

\* The pixel positions of clicks and drag ends: (1,1) and (2,1) are one pixel
\* apart, (1,3) is two pixels from (1,1); 1/ImgSide needs rounding.
Points == {<<1, 1>>, <<1, 3>>}

IoResults == {"ok", "fail"}

Replies == {"yes", "no"}

Dirs == {"images", "empty"}

Half == ImgSide * 500000

NoFiles ==
    [txt |-> [i \in Images |-> NoTxtFile], json |-> [i \in Images |-> NoJsonFile]]

\* Annotation files that were not written by this program: a *.txt file of
\* the first image with point 68 at (0.5, 0.5), and a *.json file of the last
\* image with the entries 1 and 69.
ForeignFiles ==
    [txt |-> [i \in Images |->
                 IF i = 1
                 THEN TxtFile(EncodeTxt([k \in {NumKeypoints} |-> <<Half, Half>>]))
                 ELSE NoTxtFile],
     json |-> [i \in Images |->
                 IF i = NumImages
                 THEN JsonFile(<<JsonEntry(1, Half, Half),
                                 JsonEntry(NumKeypoints + 1, Half, Half)>>)
                 ELSE NoJsonFile]]

AllReadable == [i \in Images |-> TRUE]

\* What the program finds on disk: annotation files or none, and image files
\* that can all be read, or all but the last, or all but the first.
Environments ==
    {[disk |-> NoFiles, readable |-> AllReadable],
     [disk |-> ForeignFiles, readable |-> AllReadable],
     [disk |-> NoFiles, readable |-> [i \in Images |-> i # NumImages]],
     [disk |-> ForeignFiles, readable |-> [i \in Images |-> i # 1]]}

\* What can be waiting in the event queue when a key press A or D is
\* handled: nothing, a further key press, or the release that ends a drag
\* on the image shown.
Pending ==
    LET keys == {KeyEvent("next"), KeyEvent("prev")}
        releases == IF adding_keypoint_id = 0
                    THEN {ReleaseEvent(k, p, t) :
                             k \in DOMAIN view_keypoints, p \in Points, t \in BOOLEAN}
                    ELSE {}
    IN  {<<>>} \cup {<<e>> : e \in keys \cup releases}

\* ------------------------------------------------------------ actions

OpenDirectory(dir, budget) ==
    Becomes(load_images_from_directory(S, dir),
            "open_directory", budget)

NextImage(q, io, budget) ==
    Becomes(next_image(S, q, io), "next_image", budget)

PreviousImage(q, io, budget) ==
    Becomes(previous_image(S, q, io), "previous_image", budget)

SaveAnnotations(io, budget) ==
    Becomes(save_annotations(S, io), "save_annotations", budget)

ToggleFormat(reply, io, budget) ==
    Becomes(toggle_annotation_format(S, reply, io),
            "toggle_annotation_format", budget)

ToggleAutoSave(budget) ==
    Becomes(toggle_auto_save(S, ~auto_save),
            "toggle_auto_save", budget)

ListItemClicked(kp_id, budget) ==
    Becomes(on_list_item_clicked(S, kp_id),
            "on_list_item_clicked", budget)

MousePressAdd(p, budget) ==
    /\ adding_keypoint_id # 0
    /\ Becomes(mousePressEvent(S, p),
               "add", budget)

DragKeypoint(kp_id, p, tracked, budget) ==
    /\ adding_keypoint_id = 0
    /\ kp_id \in DOMAIN view_keypoints
    /\ Becomes(mouseReleaseEvent(S, kp_id, p, tracked),
               "move", budget)

DeleteSelected(kp_id, budget) ==
    /\ Becomes(delete_selected_keypoint(S, kp_id),
               "delete", budget)

SwapKeypoints(id1, id2, budget) ==
    /\ Becomes(swap_keypoints(S, id1, id2),
               "swap", budget)

ClearAnnotations(reply, budget) ==
    /\ Becomes(clear_annotations(S, reply),
               "clear", budget)

Undo(budget) == Becomes(undo(S), "undo", budget)

Redo(budget) == Becomes(redo(S), "redo", budget)

CloseEvent(io, budget) ==
    Becomes(closeEvent(S, io), "closeEvent", budget)

\* The call of pixel_to_ratio or ratio_to_pixel under way returns.
Returns(result, op) ==
    /\ ~conversion.returned
    /\ conversion' = [conversion EXCEPT !.returned = TRUE, !.result = result]
    /\ steps' = steps + 1
    /\ lastOp' = op
    /\ UNCHANGED <<image_files, current_image_index, keypoints_data, auto_save,
                   annotation_format, undo_stack, redo_stack, pixmap_item,
                   view_keypoints, adding_keypoint_id, txt_files, json_files,
                   readable, reference_image_path, reference_keypoints,
                   running, since, recorded>>

\* pixel_to_ratio for the pixel position of the call.
PixelToRatio ==
    /\ conversion.of = "pixel_to_ratio"
    /\ Returns(pixel_to_ratio_float(conversion.arg[1], conversion.arg[2],
                                    FloatOf(conversion.width, 1, 0),
                                    FloatOf(conversion.height, 1, 0)),
               "pixel_to_ratio")

\* ratio_to_pixel for the ratio pair of the call.
RatioToPixel ==
    /\ conversion.of = "ratio_to_pixel"
    /\ Returns(ratio_to_pixel_float(conversion.arg[1], conversion.arg[2],
                                    FloatOf(conversion.width, 1, 0),
                                    FloatOf(conversion.height, 1, 0)),
               "ratio_to_pixel")

\* python convert_txt_to_json.py <directory>, run on the image directory.
BatchConvert(io, budget) ==
    Becomes(batch_convert(S, io).s, "batch_convert", budget)

\* select_reference_image: the user picks a readable image in the dialog.
SelectReferenceImage(image_path, budget) ==
    /\ readable[image_path]
    /\ Becomes(load_reference_image(S, image_path),
               "select_reference_image", budget)

\* ------------------------------------------------------------ the session

Init == \E e \in Environments : Started(e.disk, e.readable)

Next ==
    \/ \E dir \in Dirs : OpenDirectory(dir, MaxSteps)
    \/ \E q \in Pending, io \in IoResults : NextImage(q, io, MaxSteps)
    \/ \E q \in Pending, io \in IoResults : PreviousImage(q, io, MaxSteps)
    \/ \E io \in IoResults : SaveAnnotations(io, MaxSteps)
    \/ \E reply \in Replies, io \in IoResults : ToggleFormat(reply, io, MaxSteps)
    \/ ToggleAutoSave(MaxSteps)
    \/ \E kp_id \in KpIds : ListItemClicked(kp_id, MaxSteps)
    \/ \E p \in Points : MousePressAdd(p, MaxSteps)
    \/ \E kp_id \in KpIds, p \in Points, tracked \in BOOLEAN :
           DragKeypoint(kp_id, p, tracked, MaxSteps)
    \/ \E kp_id \in KpIds : DeleteSelected(kp_id, MaxSteps)
    \/ \E id1 \in KpIds, id2 \in KpIds : SwapKeypoints(id1, id2, MaxSteps)
    \/ \E reply \in Replies : ClearAnnotations(reply, MaxSteps)
    \/ Undo(MaxSteps)
    \/ Redo(MaxSteps)
    \/ \E io \in IoResults : CloseEvent(io, MaxSteps)

Spec == Init /\ [][Next]_vars

\* ------------------------------------------------------------ editing one image

\* The images of a directory with annotation files are opened and the
\* image shown is edited: points are added, moved, deleted, swapped and
\* cleared, edits are undone and redone.
InitEdit == Started(ForeignFiles, AllReadable)

NextEdit ==
    \/ OpenDirectory("images", MaxEditSteps)
    \/ \E kp_id \in KpIds : ListItemClicked(kp_id, MaxEditSteps)
    \/ \E p \in Points : MousePressAdd(p, MaxEditSteps)
    \/ \E kp_id \in KpIds, p \in Points, tracked \in BOOLEAN :
           DragKeypoint(kp_id, p, tracked, MaxEditSteps)
    \/ \E kp_id \in KpIds : DeleteSelected(kp_id, MaxEditSteps)
    \/ \E id1 \in KpIds, id2 \in KpIds : SwapKeypoints(id1, id2, MaxEditSteps)
    \/ \E reply \in Replies : ClearAnnotations(reply, MaxEditSteps)
    \/ Undo(MaxEditSteps)
    \/ Redo(MaxEditSteps)

SpecEdit == InitEdit /\ [][NextEdit]_vars

\* ------------------------------------------------------------ a long edit history

\* One image is annotated for long enough to fill the undo stack: points
\* are placed, then swapped to and fro, undone and redone.
InitHistory == Started(NoFiles, AllReadable)

NextHistory ==
    \/ OpenDirectory("images", MaxPlaceSteps)
    \/ \E kp_id \in KpIds : ListItemClicked(kp_id, MaxPlaceSteps)
    \/ \E p \in Points : MousePressAdd(p, MaxPlaceSteps)
    \/ SwapKeypoints(1, NumKeypoints, MaxHistSteps)
    \/ Undo(MaxHistSteps)
    \/ Redo(MaxHistSteps)

SpecHistory == InitHistory /\ [][NextHistory]_vars

\* ------------------------------------------------------------ browsing annotation files

\* The two components that the sample files hold for an id: a point for id
\* 1, one negative component for ids 3 and 4 (-1 and -0.000001), the corner
\* values 0 and 1 for id 5, the sentinel pair for every other id.
SamplePair(id) ==
    CASE id = 1 -> <<Half, Half>>
      [] id = 3 -> <<Half, Sentinel>>
      [] id = 4 -> <<0 - ImgSide, Half>>
      [] id = 5 -> <<0, Den>>
      [] OTHER -> <<Sentinel, Sentinel>>

\* The 136 tokens x1 y1 ... x68 y68 of the sample pairs.
SampleTokens ==
    [j \in 1..TokenCount |->
        SamplePair((j + 1) \div 2)[IF j % 2 = 1 THEN 1 ELSE 2]]

\* The *.txt files found beside an image: none, a file of 136 numbers, files
\* with a token too few, a token too many, one point only and no token at
\* all, and a file with a token that is not a number.
TxtSamples ==
    {NoTxtFile,
     TxtFile(SampleTokens),
     TxtFile(Front(SampleTokens)),
     TxtFile(Append(SampleTokens, Half)),
     TxtFile(<<Half, Half>>),
     TxtFile(<<>>),
     [TxtFile(SampleTokens) EXCEPT !.numeric = FALSE]}

\* The entries of ids 1..5 of the sample pairs.
SampleEntries ==
    [id \in 1..5 |-> JsonEntry(id, SamplePair(id)[1], SamplePair(id)[2])]

\* The *.json files found beside an image: none, a file with the sample
\* entries, a JSON object without 'keypoints', a file that is not JSON, and
\* files in which the first, the second or the last entry lacks a member.
JsonSamples ==
    {NoJsonFile,
     JsonFile(SampleEntries),
     [JsonFile(<<>>) EXCEPT !.has_keypoints = FALSE],
     [JsonFile(<<>>) EXCEPT !.parses = FALSE]}
        \cup {JsonFile([SampleEntries EXCEPT ![k].complete = FALSE]) :
                  k \in {1, 2, 5}}

\* A directory in which the first image has the files t and j.
FilesOfFirst(t, j) ==
    [txt |-> [i \in Images |-> IF i = 1 THEN t ELSE NoTxtFile],
     json |-> [i \in Images |-> IF i = 1 THEN j ELSE NoJsonFile]]

\* A directory with annotation files of every kind is opened and browsed
\* in both formats; its first image can be read or not.
InitFiles ==
    \E t \in TxtSamples, j \in JsonSamples :
        \E rd \in {AllReadable, [i \in Images |-> i # 1]} :
            Started(FilesOfFirst(t, j), rd)

NextFiles ==
    \/ OpenDirectory("images", MaxFileSteps)
    \/ \E reply \in Replies : ToggleFormat(reply, "ok", MaxFileSteps)
    \/ NextImage(<<>>, "ok", MaxFileSteps)
    \/ PreviousImage(<<>>, "ok", MaxFileSteps)

SpecFiles == InitFiles /\ [][NextFiles]_vars

\* ------------------------------------------------------------ gestures anywhere in the view

\* The scene positions a click or a drag end can have: mapToScene gives a
\* position outside the image when the pointer is beside it, left of the
\* image (x = -1) or below it (y = ImgSide + 1).
ScenePoints == Points \cup {<<0 - 1, 1>>, <<1, ImgSide + 1>>}

\* A directory is opened and its images are annotated with clicks and
\* drags that end anywhere in the view, inside the image or beside it,
\* and the user moves on to the next or the previous image or switches the
\* annotation format.
InitGesture == \E e \in Environments : Started(e.disk, e.readable)

NextGesture ==
    \/ OpenDirectory("images", MaxGestureSteps)
    \/ \E kp_id \in KpIds : ListItemClicked(kp_id, MaxGestureSteps)
    \/ \E p \in ScenePoints : MousePressAdd(p, MaxGestureSteps)
    \/ \E kp_id \in KpIds, p \in ScenePoints, tracked \in BOOLEAN :
           DragKeypoint(kp_id, p, tracked, MaxGestureSteps)
    \/ \E q \in Pending, io \in IoResults : NextImage(q, io, MaxGestureSteps)
    \/ \E q \in Pending, io \in IoResults : PreviousImage(q, io, MaxGestureSteps)
    \/ ToggleFormat("yes", "ok", MaxGestureSteps)

SpecGesture == InitGesture /\ [][NextGesture]_vars

\* ------------------------------------------------------------ a reference image in the directory

\* The user picks an image of the directory as the reference image and
\* works on the directory: opening, placing points, navigation, saving,
\* format switch, closing.
InitReference ==
    \E disk \in {NoFiles, ForeignFiles} : Started(disk, AllReadable)

NextReference ==
    \/ \E image_path \in Images : SelectReferenceImage(image_path, MaxRefSteps)
    \/ OpenDirectory("images", MaxRefSteps)
    \/ \E kp_id \in KpIds : ListItemClicked(kp_id, MaxRefSteps)
    \/ \E p \in Points : MousePressAdd(p, MaxRefSteps)
    \/ NextImage(<<>>, "ok", MaxRefSteps)
    \/ PreviousImage(<<>>, "ok", MaxRefSteps)
    \/ SaveAnnotations("ok", MaxRefSteps)
    \/ \E reply \in Replies : ToggleFormat(reply, "ok", MaxRefSteps)
    \/ ToggleAutoSave(MaxRefSteps)
    \/ CloseEvent("ok", MaxRefSteps)

SpecReference == InitReference /\ [][NextReference]_vars

\* ------------------------------------------------------------ converting a directory

\* A directory whose images have *.txt files of every kind, the first of
\* them perhaps a *.json file already, is converted with the utility.
InitConvert ==
    \E t \in [Images -> TxtSamples], j \in {NoJsonFile, JsonFile(SampleEntries)} :
        Started([txt |-> t,
                 json |-> [i \in Images |-> IF i = 1 THEN j ELSE NoJsonFile]],
                AllReadable)

NextConvert ==
    \E io \in IoResults : BatchConvert(io, MaxConvertSteps)

SpecConvert == InitConvert /\ [][NextConvert]_vars

\* ------------------------------------------------------------ converting coordinates

\* The ratios a / b of whole numbers up to MaxSide, as floats.
Ratios == UNION {{FloatOf(a, b, 0) : a \in 0..b} : b \in 1..MaxSide}

\* Positions and ratios are converted for images of every width up to
\* MaxSide, one pixel high or MaxSide pixels high: pixel positions from 0
\* to the width, ratios from 0 to 1.
InitMapper ==
    \E width \in 1..MaxSide, height \in {1, MaxSide} :
        \/ \E x \in 0..width, y \in {0, height} :
               StartedWith(NoFiles, AllReadable,
                           Call("pixel_to_ratio", width, height,
                                <<FloatOf(x, 1, 0), FloatOf(y, 1, 0)>>))
        \/ \E ratio_x \in Ratios, ratio_y \in {FloatZero, FloatOf(1, 1, 0)} :
               StartedWith(NoFiles, AllReadable,
                           Call("ratio_to_pixel", width, height,
                                <<ratio_x, ratio_y>>))

NextMapper ==
    \/ PixelToRatio
    \/ RatioToPixel

SpecMapper == InitMapper /\ [][NextMapper]_vars

\* ------------------------------------------------------------ properties

\* The five user mutations, by the handler that carries them out.
UserMutations == {"add", "move", "delete", "swap", "clear"}

Formats == {"txt", "json"}

\* An image is shown: load_current_image and save_annotations act.
HasImage ==
    current_image_index >= 0 /\ current_image_index < Len(image_files)

CurrentImage == image_files[current_image_index + 1]

\* The keys of d are ids 1..68 and its coordinates are ratios in [0, 1].
WithinRange(d) == DOMAIN d \subseteq KpRange

InUnit(d) ==
    \A k \in DOMAIN d : \A i \in 1..2 : d[k][i] >= 0 /\ d[k][i] <= Den

\* Same occupied ids, and coordinates that differ by at most half of 1e-6.
SameUpTo6(d, e) ==
    /\ DOMAIN d = DOMAIN e
    /\ \A k \in DOMAIN d : \A i \in 1..2 : 2 * Abs(d[k][i] - e[k][i]) <= ImgSide

\* The contents of a stack of snapshots, bottom first.
Vals(q) == [k \in 1..Len(q) |-> q[k].val]

\* The state after the store is saved in format f and the file is loaded.
SavedAndLoaded(f) ==
    LET saved == save_annotations([S EXCEPT !.annotation_format = f], "ok")
    IN  load_annotations(saved, CurrentImage)

\* C1: for every store whose keys are within 1..68 and whose coordinates lie
\* in [0,1], saving it and loading the written file back yields the same
\* occupied ids and the same coordinates up to 6-decimal rounding, in the
\* txt format and in the json format.
C1_SaveLoadRoundTrip ==
    (running /\ HasImage /\ WithinRange(keypoints_data) /\ InUnit(keypoints_data))
        => \A f \in Formats :
               SameUpTo6(SavedAndLoaded(f).keypoints_data, keypoints_data)

\* A store with a coordinate that rounding changes has been saved, and the
\* file read back gives the rounded store.
C1_Witness ==
    /\ running /\ HasImage /\ lastOp = "save_annotations"
    /\ keypoints_data # EmptyStore
    /\ WithinRange(keypoints_data) /\ InUnit(keypoints_data)
    /\ txt_files[CurrentImage] = TxtFile(EncodeTxt(keypoints_data))
    /\ SavedAndLoaded("txt").keypoints_data # keypoints_data
    /\ SavedAndLoaded("txt").keypoints_data
           = [k \in DOMAIN keypoints_data |-> RoundPair(keypoints_data[k])]

\* A step in which a user mutation was carried out: the handler of an add,
\* move, delete, swap or clear ran and recorded a snapshot or changed the
\* store (a delete of an absent point and a declined clear do neither).
MutationStep ==
    /\ lastOp' \in UserMutations
    /\ running'
    /\ \/ keypoints_data' # keypoints_data
       \/ Vals(undo_stack') # Vals(undo_stack)

\* C2: every user mutation (add, move, delete, swap, clear) leaves the store
\* as it was before the mutation on top of the undo stack, so that one undo
\* issued immediately afterwards restores exactly the pre-mutation store.
C2_UndoRestoresPreMutation ==
    [][MutationStep =>
          /\ undo_stack' # <<>>
          /\ Last(undo_stack').val = keypoints_data
          /\ undo(S').keypoints_data = keypoints_data]_vars

\* C3: a user mutation (add, move, delete, swap, clear) leaves the redo stack
\* empty; a redo issued next, also after an undo and this fresh mutation,
\* reports that there is nothing to redo and does not change the store.
C3_MutationClearsRedo ==
    [][MutationStep =>
          /\ redo_stack' = <<>>
          /\ redo(S').status_label = Message("nothing_to_redo", 0)
          /\ redo(S').keypoints_data = keypoints_data']_vars

\* An undo, then one fresh mutation, then a redo that found nothing to redo.
C3_Witness ==
    /\ running /\ lastOp = "redo"
    /\ since = "undo" /\ Len(recorded) = 1
    /\ keypoints_data # EmptyStore /\ recorded[1] # keypoints_data
    /\ redo_stack = <<>> /\ undo_stack # <<>>

Min(a, b) == IF a < b THEN a ELSE b

RECURSIVE UndoTimes(_, _)
\* The state after k undos in a row.
UndoTimes(s, k) == IF k = 0 THEN s ELSE UndoTimes(undo(s), k - 1)

\* C4: the undo stack never holds more than max_undo_steps (10) snapshots;
\* recording on a full stack evicts the oldest, so the stack ends with the
\* most recent recorded pre-mutation stores, at most 10 of them, these are
\* what successive undos restore, and an undo beyond them finds nothing: of
\* 12 recorded mutations the 2 oldest cannot be reached.
C4_HistoryBound ==
    LET n == Len(recorded)
        m == Min(n, max_undo_steps)
        len == Len(undo_stack)
    IN  /\ len <= max_undo_steps
        /\ len >= m
        /\ since \in {"start", "load"} => len = m
        /\ SubSeq(Vals(undo_stack), len - m + 1, len) = SubSeq(recorded, n - m + 1, n)
        /\ running =>
               /\ \A k \in 1..m :
                      UndoTimes(S, k).keypoints_data = recorded[n - k + 1]
               /\ UndoTimes(S, len + 1).status_label = Message("nothing_to_undo", 0)
               /\ len > 0 =>
                      UndoTimes(S, len + 1).keypoints_data = undo_stack[1].val

\* 12 mutations have been recorded since the image was loaded, the two
\* oldest pre-mutation stores are not in the full undo stack.
C4_Witness ==
    /\ running /\ since = "load"
    /\ Len(recorded) = max_undo_steps + 2
    /\ Len(undo_stack) = max_undo_steps
    /\ \A k \in 1..Len(undo_stack) :
           undo_stack[k].val # recorded[1] /\ undo_stack[k].val # recorded[2]

\* The store and the contents of the two stacks of state s.
History(s) ==
    [store |-> s.keypoints_data, undo |-> Vals(s.undo_stack),
     redo |-> Vals(s.redo_stack)]

\* C5: an undo with a non-empty undo stack pushes the current store onto
\* the redo stack and makes the popped top of the undo stack the current
\* store, and a redo with a non-empty redo stack is its mirror image; a redo
\* straight after the undo (an undo straight after the redo) returns the
\* store and both stacks to their contents before it.
C5_UndoRedoMirror ==
    [][/\ (lastOp' = "undo" /\ undo_stack # <<>>) =>
             /\ History(S') = [store |-> Last(undo_stack).val,
                               undo |-> Front(Vals(undo_stack)),
                               redo |-> Append(Vals(redo_stack), keypoints_data)]
             /\ History(redo(S')) = History(S)
       /\ (lastOp' = "redo" /\ redo_stack # <<>>) =>
             /\ History(S') = [store |-> Last(redo_stack).val,
                               undo |-> Append(Vals(undo_stack), keypoints_data),
                               redo |-> Front(Vals(redo_stack))]
             /\ History(undo(S')) = History(S)]_vars

\* A redo has just restored a store that an undo had taken back; the store
\* differs from the one below it on the undo stack.
C5_Witness ==
    /\ running /\ lastOp = "redo" /\ since = "redo"
    /\ keypoints_data # EmptyStore
    /\ undo_stack # <<>> /\ Last(undo_stack).val # keypoints_data

\* C6: an undo on an empty undo stack and a redo on an empty redo stack
\* report that nothing is available, as a status and not as an error, and
\* leave the store, both stacks, the position, the format and all files
\* unchanged.
C6_NothingToUndoOrRedo ==
    [][/\ (lastOp' = "undo" /\ undo_stack = <<>>) =>
             /\ undo(S).status_label = Message("nothing_to_undo", 0)
             /\ undo(S).message_box = NoMessage
             /\ running'
             /\ UNCHANGED <<keypoints_data, undo_stack, redo_stack,
                            current_image_index, annotation_format,
                            txt_files, json_files>>
       /\ (lastOp' = "redo" /\ redo_stack = <<>>) =>
             /\ redo(S).status_label = Message("nothing_to_redo", 0)
             /\ redo(S).message_box = NoMessage
             /\ running'
             /\ UNCHANGED <<keypoints_data, undo_stack, redo_stack,
                            current_image_index, annotation_format,
                            txt_files, json_files>>]_vars

\* A redo found the redo stack empty, after a mutation of a loaded store
\* that is on the undo stack.
C6_Witness ==
    /\ running /\ lastOp = "redo" /\ since = "load"
    /\ redo_stack = <<>> /\ undo_stack # <<>>
    /\ keypoints_data # EmptyStore
    /\ HasImage /\ txt_files[CurrentImage].exists

\* The snapshots of both stacks.
Snapshots(s) ==
    {s.undo_stack[k] : k \in 1..Len(s.undo_stack)}
        \cup {s.redo_stack[k] : k \in 1..Len(s.redo_stack)}

\* C7: no snapshot in the undo or redo stack is the live store, so that a
\* later mutation of the live store changes no snapshot in either stack:
\* not the in-place clearing and filling of load_annotations, and not an
\* added point, below the snapshot that the add records itself.
C7_NoAliasing ==
    /\ \A e \in Snapshots(S) : e.oid # 0
    /\ (running /\ HasImage) =>
           LET loaded == load_annotations(S, CurrentImage)
           IN  /\ Vals(loaded.undo_stack) = Vals(undo_stack)
               /\ Vals(loaded.redo_stack) = Vals(redo_stack)
    /\ running =>
           \A kp_id \in KpIds, p \in Points :
               LET added == on_keypoint_added(S, kp_id, p)
               IN  Vals(added.undo_stack)
                       = Vals(save_state(S).undo_stack)

\* The format was switched while the undo stack held snapshots: the store
\* was cleared in place and loaded anew, the snapshots differ from it.
C7_Witness ==
    /\ running /\ HasImage /\ lastOp = "toggle_annotation_format"
    /\ undo_stack # <<>>
    /\ \A e \in Snapshots(S) : e.val # EmptyStore /\ e.val # keypoints_data

\* The steps of the handlers that edit the store or restore a snapshot.
EditStep == lastOp' \in UserMutations \cup {"undo", "redo"}

\* The handlers that save: Save, the keys A and D, the format switch, and
\* closing the window.
SavingHandlers ==
    {"save_annotations", "next_image", "previous_image",
     "toggle_annotation_format", "closeEvent"}

\* C8 as amended: undo, redo, add, move, delete, swap and clear leave every
\* annotation file as it is; a file changes only in a step of an explicit
\* save, of navigation, of a format switch or of closing the window.
C8_EditsWriteNoFile ==
    [][/\ EditStep => UNCHANGED <<txt_files, json_files>>
       /\ (txt_files' # txt_files \/ json_files' # json_files)
             => lastOp' \in SavingHandlers]_vars

\* C8 as stated: undo, redo, add, move, delete, swap and clear leave every
\* annotation file as it is; a file changes only through an explicit save
\* or an auto-save triggered by navigation.
C8_OnlySaveOrNavigationWrites ==
    [][/\ EditStep => UNCHANGED <<txt_files, json_files>>
       /\ (txt_files' # txt_files \/ json_files' # json_files)
             => lastOp' \in {"save_annotations", "next_image",
                             "previous_image"}]_vars

\* A mutation was undone and redone with auto_save on, and the file of the
\* image still holds what was loaded, not the store.
C8_Witness ==
    /\ running /\ HasImage /\ auto_save
    /\ lastOp = "redo" /\ since = "redo"
    /\ annotation_format = "txt"
    /\ txt_files[CurrentImage].exists
    /\ txt_files[CurrentImage] # TxtFile(EncodeTxt(keypoints_data))
    /\ keypoints_data # EmptyStore
    /\ undo_stack # <<>> /\ Last(undo_stack).val # keypoints_data

\* The annotation file of image i in format f, in state s.
FileOf(s, i, f) == IF f = "json" THEN s.json_files[i] ELSE s.txt_files[i]

\* What save_annotations writes for store d in format f.
Encoded(d, f) ==
    IF f = "json" THEN JsonFile(EncodeJson(d)) ELSE TxtFile(EncodeTxt(d))

\* previous_image (step = -1) or next_image (step = 1).
Move(s, step, q, io) ==
    IF step = 1 THEN next_image(s, q, io) ELSE previous_image(s, q, io)

\* The boundary test of previous_image and next_image.
AwayFromBoundary(s, step) ==
    IF step = 1 THEN s.current_image_index < Len(s.image_files) - 1
    ELSE s.current_image_index > 0

\* C9: when previous_image or next_image runs away from a boundary with
\* auto_save on and the write succeeds, the store is saved before the
\* position changes: the file written is that of the image that was active
\* before the move, in the active format, it holds the store of that image
\* as the pending events left it, no other file is written, and the
\* position then changes by one step from the position that was saved.
C9_AutoSaveBeforeMove ==
    (running /\ auto_save /\ HasImage) =>
        \A step \in {0 - 1, 1}, q \in Pending :
            LET drained == processEvents(S, q, "ok")
                moved == Move(S, step, q, "ok")
                active == drained.image_files[drained.current_image_index + 1]
            IN  (AwayFromBoundary(S, step) /\ drained.running) =>
                    /\ (\A i \in 1..Len(q) : q[i].type = "release")
                           => active = CurrentImage
                    /\ FileOf(moved, active, annotation_format)
                           = Encoded(drained.keypoints_data, annotation_format)
                    /\ \A i \in Images, f \in Formats :
                           (i # active \/ f # annotation_format)
                               => FileOf(moved, i, f) = FileOf(drained, i, f)
                    /\ moved.current_image_index
                           = drained.current_image_index + step

\* The key D moved on from the first image: its *.txt file holds a rounded
\* coordinate of the store that was saved, the image moved to has no file.
C9_Witness ==
    /\ running /\ auto_save /\ lastOp = "next_image"
    /\ annotation_format = "txt"
    /\ current_image_index = 1
    /\ txt_files[1].exists
    /\ \E j \in 1..TokenCount : txt_files[1].coords[j] = Round6(Million)
    /\ ~txt_files[2].exists

\* C10: with auto_save on and writes succeeding, for a store with
\* coordinates in [0,1], moving to the next image and back to the previous
\* one, or to the previous one and back to the next, yields a store equal
\* to the one held before the first move, up to 6-decimal rounding.
C10_NavigationRoundTrip ==
    (running /\ auto_save /\ HasImage /\ InUnit(keypoints_data)) =>
        \A step \in {0 - 1, 1} :
            LET there == Move(S, step, <<>>, "ok")
                back == Move(there, 0 - step, <<>>, "ok")
            IN  (AwayFromBoundary(S, step) /\ back.running) =>
                    SameUpTo6(back.keypoints_data, keypoints_data)

\* The format that is not f.
Other(f) == IF f = "txt" THEN "json" ELSE "txt"

\* The ids of a token list of a *.txt file whose two tokens are not negative.
TxtIds(coords) ==
    {k \in KpRange : coords[2 * k - 1] >= 0 /\ coords[2 * k] >= 0}

\* The positions of the entries of a 'keypoints' list that are not sentinels.
JsonPlaces(kps) == {k \in 1..Len(kps) : kps[k].x >= 0 /\ kps[k].y >= 0}

\* A *.json file that has each member the format asks for.
WellFormedJson(file) ==
    /\ file.parses /\ file.has_keypoints
    /\ \A k \in 1..Len(file.keypoints) : file.keypoints[k].complete

\* A *.txt file of 136 numbers.
WellFormedTxt(file) == file.numeric /\ Len(file.coords) = TokenCount

\* The store that an annotation file of format f describes: the ids whose
\* two components are not negative, with the file's values; the empty store
\* for a file that does not exist or is malformed.
FileContent(file, f) ==
    IF ~file.exists THEN EmptyStore
    ELSE IF f = "txt"
    THEN IF WellFormedTxt(file)
         THEN [k \in TxtIds(file.coords) |->
                  <<file.coords[2 * k - 1], file.coords[2 * k]>>]
         ELSE EmptyStore
    ELSE IF WellFormedJson(file)
         THEN LET kps == file.keypoints
                  at(id) == CHOOSE k \in JsonPlaces(kps) :
                                /\ kps[k].id = id
                                /\ \A j \in JsonPlaces(kps) :
                                       kps[j].id = id => j <= k
              IN  [id \in {kps[k].id : k \in JsonPlaces(kps)} |->
                      <<kps[at(id)].x, kps[at(id)].y>>]
         ELSE EmptyStore

\* C11: when the format is switched with an image loaded, at least one
\* annotated point and auto_save on, and the write succeeds, the store is
\* written to the file of the format that was active before the switch, the
\* active format changes, and the store becomes the content of the file of
\* the newly active format for the same image, which the save left as it
\* was; a file that does not exist gives the empty store and no warning.
C11_FormatSwitchPersistence ==
    (running /\ HasImage /\ keypoints_data # EmptyStore /\ auto_save) =>
        \A reply \in Replies :
            LET old == annotation_format
                new == Other(old)
                t == toggle_annotation_format(S, reply, "ok")
            IN  /\ t.running
                /\ FileOf(t, CurrentImage, old) = Encoded(keypoints_data, old)
                /\ t.annotation_format = new
                /\ FileOf(t, CurrentImage, new) = FileOf(S, CurrentImage, new)
                /\ \A i \in Images \ {CurrentImage}, f \in Formats :
                       FileOf(t, i, f) = FileOf(S, i, f)
                /\ t.keypoints_data
                       = FileContent(FileOf(S, CurrentImage, new), new)
                /\ ~FileOf(S, CurrentImage, new).exists =>
                       /\ t.keypoints_data = EmptyStore
                       /\ t.message_box = NoMessage

\* The format was switched from txt to json with a point set by the user
\* in the store: the *.txt file holds the point, there is no *.json file
\* and the store is empty.
C11_Witness ==
    /\ running /\ HasImage /\ auto_save
    /\ lastOp = "toggle_annotation_format"
    /\ annotation_format = "json"
    /\ ~json_files[CurrentImage].exists
    /\ txt_files[CurrentImage].exists
    /\ \E j \in 1..TokenCount :
           txt_files[CurrentImage].coords[j] = Round6(Million)
    /\ keypoints_data = EmptyStore

\* C12: with auto_save on and writes succeeding, switching the format and
\* switching back at once yields a store equal, up to 6-decimal rounding, to
\* the store held before the first switch, for every reachable store, the
\* empty one included, whatever the two files of the image held before.
C12_FormatSwitchRoundTrip ==
    (running /\ HasImage /\ auto_save) =>
        \A r1 \in Replies, r2 \in Replies :
            LET there == toggle_annotation_format(S, r1, "ok")
                back == toggle_annotation_format(there, r2, "ok")
            IN  back.running =>
                    SameUpTo6(back.keypoints_data, keypoints_data)

\* A step in which load_current_image loaded an image: a directory with
\* images was opened, or previous_image or next_image ran away from a
\* boundary, and the position is that of an image.
LoadStep ==
    /\ running' /\ HasImage'
    /\ \/ lastOp' = "open_directory"
       \/ lastOp' = "next_image" /\ AwayFromBoundary(S, 1)
       \/ lastOp' = "previous_image" /\ AwayFromBoundary(S, 0 - 1)

\* C13: after an image is loaded, by opening a directory or by moving to
\* the previous or next image, the store holds exactly the entries of the
\* new image's file in the active format (none when there is no file), no
\* entry of the previous image remains, and the undo stack and the redo
\* stack are empty.
C13_LoadReplacesState ==
    [][LoadStep =>
          /\ keypoints_data'
                 = FileContent(FileOf(S', CurrentImage', annotation_format'),
                               annotation_format')
          /\ undo_stack' = <<>>
          /\ redo_stack' = <<>>]_vars

\* C14: previous_image at index 0 and next_image at the last index do
\* nothing: the position, the store, both history stacks and every
\* annotation file are as before, no auto-save is made.
C14_NoOpAtBoundary ==
    [][(\/ lastOp' = "previous_image" /\ current_image_index = 0
        \/ lastOp' = "next_image"
               /\ current_image_index = Len(image_files) - 1)
          => /\ running'
             /\ UNCHANGED <<current_image_index, keypoints_data, undo_stack,
                            redo_stack, txt_files, json_files>>]_vars

\* The key A was pressed on the first image with auto_save on, after an
\* edit: the undo stack still holds the edit and the file of the image does
\* not hold the store.
C14_Witness ==
    /\ running /\ HasImage /\ auto_save
    /\ lastOp = "previous_image" /\ current_image_index = 0
    /\ undo_stack # <<>> /\ keypoints_data # EmptyStore
    /\ FileOf(S, CurrentImage, annotation_format)
           # Encoded(keypoints_data, annotation_format)

\* The ids given to a swap: two ids the user works with and one that is
\* never annotated.
SwapIds == KpIds \cup {2}

\* C15: for every store and every pair of ids, swap_keypoints(id1, id2)
\* exchanges the two coordinates when both ids are present, moves the
\* coordinate of id1 to id2 and leaves id1 absent when only id1 is present,
\* moves the coordinate of id2 to id1 and leaves id2 absent when only id2 is
\* present, and leaves the store as it is when neither is present; the
\* entries of all other ids are unchanged and no coordinate is dropped.
C15_SwapCases ==
    running =>
        \A id1 \in SwapIds, id2 \in SwapIds :
            LET d == keypoints_data
                t == swap_keypoints(S, id1, id2).keypoints_data
                has1 == id1 \in DOMAIN d
                has2 == id2 \in DOMAIN d
            IN  /\ (has1 /\ has2) =>
                       /\ DOMAIN t = DOMAIN d
                       /\ t[id1] = d[id2] /\ t[id2] = d[id1]
                /\ (has1 /\ ~has2) =>
                       /\ id2 \in DOMAIN t /\ t[id2] = d[id1]
                       /\ id1 \notin DOMAIN t
                /\ (~has1 /\ has2) =>
                       /\ id1 \in DOMAIN t /\ t[id1] = d[id2]
                       /\ id2 \notin DOMAIN t
                /\ (~has1 /\ ~has2) => t = d
                /\ \A k \in (DOMAIN d \cup DOMAIN t) \ {id1, id2} :
                       k \in DOMAIN d /\ k \in DOMAIN t /\ t[k] = d[k]
                /\ Cardinality(DOMAIN t) = Cardinality(DOMAIN d)

\* Points 1 and 68 were swapped when only one of them was annotated: the
\* store before the swap, on top of the undo stack, holds the coordinate
\* under the one id, the store holds it under the other id alone.
C15_Witness ==
    /\ running /\ lastOp = "swap" /\ undo_stack # <<>>
    /\ \E a \in KpIds, b \in KpIds :
           /\ a # b
           /\ DOMAIN Last(undo_stack).val = {a}
           /\ DOMAIN keypoints_data = {b}
           /\ keypoints_data[b] = Last(undo_stack).val[a]

\* The id that takes the place of id k when id1 and id2 are interchanged.
Interchanged(k, id1, id2) ==
    IF k = id1 THEN id2 ELSE IF k = id2 THEN id1 ELSE k

\* C16 as amended: for every store and every pair of ids, the set of
\* annotated ids after swap_keypoints(id1, id2) is the set before it with id1
\* and id2 interchanged: the same set when both or neither of the two is
\* annotated, and a set of the same size in every case.
C16_SwapInterchangesIds ==
    running =>
        \A id1 \in SwapIds, id2 \in SwapIds :
            LET d == keypoints_data
                t == swap_keypoints(S, id1, id2).keypoints_data
            IN  /\ DOMAIN t = {Interchanged(k, id1, id2) : k \in DOMAIN d}
                /\ ((id1 \in DOMAIN d) <=> (id2 \in DOMAIN d))
                       => DOMAIN t = DOMAIN d
                /\ Cardinality(DOMAIN t) = Cardinality(DOMAIN d)

\* C16 as stated: for every store and every pair of ids, the set of
\* annotated ids after swap_keypoints(id1, id2) equals the set before it.
C16_SwapPreservesIdSet ==
    running =>
        \A id1 \in SwapIds, id2 \in SwapIds :
            DOMAIN swap_keypoints(S, id1, id2).keypoints_data
                = DOMAIN keypoints_data

\* A swap changed the set of annotated ids from {1} to {68}.
C16_Witness ==
    /\ running /\ lastOp = "swap" /\ undo_stack # <<>>
    /\ DOMAIN Last(undo_stack).val = {1}
    /\ DOMAIN keypoints_data = {NumKeypoints}

\* An annotation file of format f that exists and is well formed.
Decodable(file, f) ==
    /\ file.exists
    /\ IF f = "txt" THEN WellFormedTxt(file) ELSE WellFormedJson(file)

\* The store after the file of the image shown is loaded in format f.
LoadedIn(f) ==
    load_annotations([S EXCEPT !.annotation_format = f], CurrentImage)

\* Store d holds id with the components x and y of a file when neither is
\* negative, and does not hold id when one of them is.
HoldsOrExcludes(d, id, x, y) ==
    IF x < 0 \/ y < 0 THEN id \notin DOMAIN d
    ELSE id \in DOMAIN d /\ d[id] = <<x, y>>

\* C17: when a well-formed file of either format is loaded, every id whose
\* x or y component in the file is negative is absent from the store, and
\* every id whose two components are not negative is present with the
\* values of the file; no entry of the store has a negative component.
C17_SentinelExclusion ==
    (running /\ HasImage) =>
        \A f \in Formats :
            LET file == FileOf(S, CurrentImage, f)
                d == LoadedIn(f).keypoints_data
            IN  Decodable(file, f) =>
                    /\ \A id \in DOMAIN d : d[id][1] >= 0 /\ d[id][2] >= 0
                    /\ IF f = "txt"
                       THEN \A id \in KpRange :
                                HoldsOrExcludes(d, id, file.coords[2 * id - 1],
                                                file.coords[2 * id])
                       ELSE \A k \in 1..Len(file.keypoints) :
                                LET kp == file.keypoints[k]
                                IN  HoldsOrExcludes(d, kp.id, kp.x, kp.y)

\* The components that a save of store d writes for id.
SavedPair(d, id) ==
    IF id \in DOMAIN d THEN RoundPair(d[id]) ELSE <<Sentinel, Sentinel>>

\* File file of format f holds the 68 ids in the order 1..68, each with the
\* two components that pair gives for it.
HoldsAllIds(file, f, pair(_)) ==
    /\ file.exists
    /\ IF f = "txt"
       THEN /\ file.numeric
            /\ Len(file.coords) = 2 * NumKeypoints
            /\ \A id \in KpRange :
                   <<file.coords[2 * id - 1], file.coords[2 * id]>> = pair(id)
       ELSE /\ file.parses /\ file.has_keypoints
            /\ Len(file.keypoints) = NumKeypoints
            /\ \A id \in KpRange :
                   LET kp == file.keypoints[id]
                   IN  kp.complete /\ kp.id = id /\ <<kp.x, kp.y>> = pair(id)

\* C18: every save writes all 68 ids in the order 1..68, whichever are
\* annotated: a *.txt file that a step has written has exactly 136 numeric
\* tokens and a written *.json file exactly 68 entries with the ids 1..68,
\* each id with two components; after an explicit save an id that is not
\* annotated has the sentinel pair (-1, -1) and an annotated id its rounded
\* coordinates; and loading a written file is not refused for its token
\* count.
C18_SaveEmitsAllIds ==
    [][\A i \in Images, f \in Formats :
           FileOf(S', i, f) # FileOf(S, i, f) =>
               LET file == FileOf(S', i, f)
                   held(id) == IF f = "txt"
                               THEN <<file.coords[2 * id - 1], file.coords[2 * id]>>
                               ELSE <<file.keypoints[id].x, file.keypoints[id].y>>
                   stored(id) == SavedPair(keypoints_data, id)
               IN  /\ HoldsAllIds(file, f, held)
                   /\ lastOp' = "save_annotations" =>
                          HoldsAllIds(file, f, stored)
                   /\ load_annotations([S' EXCEPT !.annotation_format = f], i)
                          .message_box.code # "txt_format_error"]_vars

\* A store with point 1 and without point 2 has been saved: the file of the
\* image in the active format holds the coordinates of id 1 and the sentinel
\* pair for id 2.
C18_Witness ==
    /\ running /\ HasImage /\ lastOp = "save_annotations"
    /\ 1 \in DOMAIN keypoints_data /\ 2 \notin DOMAIN keypoints_data
    /\ LET file == FileOf(S, CurrentImage, annotation_format)
       IN  /\ file.exists
           /\ IF annotation_format = "txt"
              THEN /\ Len(file.coords) = TokenCount
                   /\ <<file.coords[1], file.coords[2]>>
                          = RoundPair(keypoints_data[1])
                   /\ <<file.coords[3], file.coords[4]>> = <<Sentinel, Sentinel>>
              ELSE /\ Len(file.keypoints) = NumKeypoints
                   /\ <<file.keypoints[1].x, file.keypoints[1].y>>
                          = RoundPair(keypoints_data[1])
                   /\ <<file.keypoints[2].x, file.keypoints[2].y>>
                          = <<Sentinel, Sentinel>>

\* C19: loading a *.txt file whose number of tokens is not exactly 136
\* raises the warning that names the 136 expected and the actual count, and
\* loading one with a token that is not a number raises the load warning; in
\* both cases the store is left empty: no point of the file is loaded, not
\* even those of a prefix, and no point held before remains.
C19_MalformedTxtRejected ==
    (running /\ HasImage) =>
        LET file == txt_files[CurrentImage]
            t == LoadedIn("txt")
        IN  (file.exists /\ ~WellFormedTxt(file)) =>
                /\ t.running
                /\ t.keypoints_data = EmptyStore
                /\ t.view_keypoints = <<>>
                /\ t.message_box =
                       IF file.numeric
                       THEN Message("txt_format_error", Len(file.coords))
                       ELSE Message("txt_load_failed", 0)

\* The format was switched to txt on a readable image whose *.txt file has
\* 135 tokens, the first two of them a point, while the store held the
\* points of the *.json file: the store is empty.
C19_Witness ==
    /\ running /\ HasImage /\ readable[CurrentImage]
    /\ lastOp = "toggle_annotation_format" /\ annotation_format = "txt"
    /\ LET file == txt_files[CurrentImage]
       IN  /\ file.exists /\ file.numeric
           /\ Len(file.coords) = TokenCount - 1
           /\ file.coords[1] >= 0 /\ file.coords[2] >= 0
    /\ FileContent(json_files[CurrentImage], "json") # EmptyStore
    /\ keypoints_data = EmptyStore

\* C20: loading a *.json file that parses but lacks the 'keypoints' list, or
\* has an entry without id, x or y at any place of the list, raises the load
\* warning and leaves the store empty: no entry of the file remains in it.
C20_MalformedJsonRejected ==
    (running /\ HasImage) =>
        LET file == json_files[CurrentImage]
            t == LoadedIn("json")
        IN  (file.exists /\ file.parses /\ ~WellFormedJson(file)) =>
                /\ t.running
                /\ t.keypoints_data = EmptyStore
                /\ t.message_box = Message("json_load_failed", 0)

\* ----------------------------------------------------------------------
\* Store invariants, failed conversions and failed saves
\* ----------------------------------------------------------------------

\* C21: in every reachable state the keys of the store are ids from 1 to 68,
\* also after loading a *.json file and after any sequence of add, move,
\* delete, swap, clear, undo and redo.
C21_KeysWithinRange ==
    DOMAIN keypoints_data \subseteq KpRange

\* C22: in every reachable state both components of every entry of the
\* store are ratios in [0, 1]; no negative component, the sentinel least of
\* all, is held in memory, whatever position a click or a drag reports and
\* whatever the loaded file holds.
C22_RatiosWithinUnit ==
    InUnit(keypoints_data)

\* C23: when a click that adds a point or the end of a drag arrives while
\* the size of the image is not available, nothing is stored (the store is
\* as before), the status line reports it and the program goes on running.
C23_ConversionFailureRecovered ==
    (running /\ pixmap_item # "valid") =>
        \A kp_id \in KpIds, p \in ScenePoints :
            \A t \in {on_keypoint_added(S, kp_id, p),
                      on_keypoint_moved(S, kp_id, p)} :
                /\ t.running
                /\ t.keypoints_data = keypoints_data
                /\ t.status_label = Message("cannot_store_point", 0)

\* C24: a save whose write fails reports the error in a message box and
\* leaves the state in memory as it was: the store, the undo stack, the redo
\* stack, the position and the format after the failed save are those
\* before it, and no file has changed.
C24_FailedSaveKeepsState ==
    (running /\ HasImage) =>
        LET t == save_annotations(S, "fail")
        IN  /\ t.message_box =
                   Message(IF annotation_format = "json"
                           THEN "save_json_failed" ELSE "save_txt_failed", 0)
            /\ t.running
            /\ t.keypoints_data = keypoints_data
            /\ t.undo_stack = undo_stack
            /\ t.redo_stack = redo_stack
            /\ t.current_image_index = current_image_index
            /\ t.annotation_format = annotation_format
            /\ t.txt_files = txt_files
            /\ t.json_files = json_files

\* A save has just failed on an edited store with a history: the file of
\* the image does not hold the store, which is still in memory with its
\* undo stack.
C24_Witness ==
    /\ running /\ HasImage
    /\ lastOp = "save_annotations"
    /\ keypoints_data # EmptyStore
    /\ undo_stack # <<>>
    /\ FileOf(S, CurrentImage, annotation_format)
           # Encoded(keypoints_data, annotation_format)

\* C25: after a failed save the annotations that could not be written are
\* still in the store, so that the save can be tried again; this holds for
\* the save command and also when the failed save is the auto-save of a
\* move to another image or of a format switch.
C25_FailedSaveKeepsAnnotations ==
    (/\ running /\ HasImage /\ auto_save /\ keypoints_data # EmptyStore
     /\ FileOf(S, CurrentImage, annotation_format)
            # Encoded(keypoints_data, annotation_format)) =>
        /\ save_annotations(S, "fail").keypoints_data = keypoints_data
        /\ \A step \in {0 - 1, 1} :
               AwayFromBoundary(S, step) =>
                   Move(S, step, <<>>, "fail").keypoints_data = keypoints_data
        /\ \A reply \in Replies :
               toggle_annotation_format(S, reply, "fail").keypoints_data
                   = keypoints_data

\* C26: a drag is one move.  A completed drag of a point (press on the
\* point, pointer moves, release) that ends more than one pixel away on the
\* x or the y axis makes exactly one move of the point and exactly one new
\* entry of the undo stack, the store as it was before the drag; a drag that
\* ends at most one pixel away on both axes changes neither the store nor
\* the history.  The image is shown, so that positions can be converted.
C26_DragIsOneMove ==
    (running /\ pixmap_item = "valid" /\ adding_keypoint_id = 0) =>
        \A kp_id \in DOMAIN view_keypoints, p \in Points, tracked \in BOOLEAN :
            LET t == mouseReleaseEvent(S, kp_id, p, tracked)
                start == view_keypoints[kp_id]
                far == \/ Abs(p[1] * Million - start[1]) > Million
                       \/ Abs(p[2] * Million - start[2]) > Million
            IN  IF far
                THEN /\ t.running
                     /\ t.keypoints_data =
                            DictSet(keypoints_data, kp_id, pixel_to_ratio(p))
                     /\ t.recorded = Append(recorded, keypoints_data)
                     /\ Len(undo_stack) < max_undo_steps =>
                            Vals(t.undo_stack)
                                = Append(Vals(undo_stack), keypoints_data)
                ELSE /\ t.keypoints_data = keypoints_data
                     /\ t.undo_stack = undo_stack
                     /\ t.redo_stack = redo_stack
                     /\ t.recorded = recorded

\* C27: previous_image and next_image drain the event queue before their
\* auto-save: when the release that ends a drag of a point is still waiting
\* as the key A or D is handled, the file written by the auto-save holds the
\* store with the point at the position the drag gave it.
C27_PendingReleaseIsSaved ==
    (/\ running /\ auto_save /\ HasImage
     /\ pixmap_item = "valid" /\ adding_keypoint_id = 0) =>
        \A step \in {0 - 1, 1}, kp_id \in DOMAIN view_keypoints,
           p \in Points, tracked \in BOOLEAN :
            LET start == view_keypoints[kp_id]
                far == \/ Abs(p[1] * Million - start[1]) > Million
                       \/ Abs(p[2] * Million - start[2]) > Million
                moved == Move(S, step, <<ReleaseEvent(kp_id, p, tracked)>>, "ok")
            IN  (AwayFromBoundary(S, step) /\ far) =>
                    /\ moved.running
                    /\ moved.current_image_index = current_image_index + step
                    /\ FileOf(moved, CurrentImage, annotation_format)
                           = Encoded(DictSet(keypoints_data, kp_id,
                                             pixel_to_ratio(p)),
                                     annotation_format)

\* The key D was pressed right after the directory was opened, with the
\* release of a drag of point 68 from the middle of the first image to
\* pixel (1, 3) still in the queue: the *.txt file of the first image holds
\* point 68 at (1/3, 1) and the second image is shown.
C27_Witness ==
    /\ running /\ auto_save
    /\ lastOp = "next_image" /\ steps = 2
    /\ current_image_index = 1
    /\ annotation_format = "txt"
    /\ txt_files[1] = Encoded(DictSet(EmptyStore, NumKeypoints,
                                      pixel_to_ratio(<<1, 3>>)), "txt")

\* C28: the store decoded from an annotation file does not depend on the
\* image shown: loading the same file gives the same store whether the size
\* of the image is available (the image was read) or not (no image was
\* read, or the item of an earlier image is left behind).
C28_DecodingIgnoresImage ==
    (running /\ HasImage) =>
        \A f \in Formats, pix \in {"none", "valid", "deleted"} :
            load_annotations([S EXCEPT !.annotation_format = f,
                                       !.pixmap_item = pix],
                             CurrentImage).keypoints_data
                = LoadedIn(f).keypoints_data

\* C29: the *.json file beside the reference image is never written by the
\* program: no handler (opening a directory, navigation with auto-save,
\* the save command, a format switch, closing) creates or overwrites it,
\* whatever directory is opened for annotation.
C29_ReferenceFileNeverWritten ==
    [][(reference_image_path # 0 /\ reference_image_path' = reference_image_path)
          => json_files'[reference_image_path]
                 = json_files[reference_image_path]]_vars

C31_SwapOfAbsentIdsIsNoOp ==
    running =>
        \A id1 \in KpIds, id2 \in KpIds :
            (id1 \notin DOMAIN keypoints_data /\ id2 \notin DOMAIN keypoints_data) =>
                LET t == swap_keypoints(S, id1, id2)
                IN  /\ t.keypoints_data = keypoints_data
                    /\ Vals(t.undo_stack) = Vals(undo_stack)
                    /\ Vals(t.redo_stack) = Vals(redo_stack)

\* C32: the conversion utility applies the 136-token rule of the *.txt
\* loader: every *.txt file is accepted by both or rejected by both, and for
\* a wrong number of tokens both give the same message, with the same
\* wording and the same number found.
C32_UtilityMatchesLoader ==
    \A i \in Images :
        txt_files[i].exists =>
            LET core == load_txt_annotations(S, txt_files[i])
                util == convert_txt_to_json(txt_files[i], "ok")
            IN  /\ util.ok <=> core.message_box = NoMessage
                /\ (txt_files[i].numeric /\ Len(txt_files[i].coords) # TokenCount) =>
                       /\ util.printed.actual = core.message_box.actual
                       /\ MessageText(util.printed.code)
                              = MessageText(core.message_box.code)

\* The distance of float a from float b is at most one unit in the last
\* place of b.
WithinOneUnit(a, b) ==
    IF a.m = 0 \/ b.m = 0 THEN a = b
    ELSE IF Abs(a.e - b.e) > 2 THEN FALSE
    ELSE LET c == Min(a.e, b.e)
         IN  Abs(a.m * Pow2(a.e - c) - b.m * Pow2(b.e - c)) <= Pow2(b.e - c)

\* The inverse conversion of the result of the call that returned.
ThereAndBack ==
    IF conversion.of = "pixel_to_ratio"
    THEN ratio_to_pixel_float(conversion.result[1], conversion.result[2],
                              FloatOf(conversion.width, 1, 0),
                              FloatOf(conversion.height, 1, 0))
    ELSE pixel_to_ratio_float(conversion.result[1], conversion.result[2],
                              FloatOf(conversion.width, 1, 0),
                              FloatOf(conversion.height, 1, 0))

\* C33 as stated: for an image of positive width and height,
\* ratio_to_pixel(pixel_to_ratio(p)) is p for every pixel position p and
\* pixel_to_ratio(ratio_to_pixel(r)) is r for every ratio r.
C33_ConversionsAreInverse ==
    conversion.returned => ThereAndBack = conversion.arg

\* C33: for an image of positive width and height,
\* ratio_to_pixel(pixel_to_ratio(p)) is p for every pixel position p and
\* pixel_to_ratio(ratio_to_pixel(r)) is r for every ratio r, within
\* floating tolerance: each component differs from the original by at most
\* one unit in its last place.
C33_ConversionsAreInverseWithinTolerance ==
    conversion.returned =>
        \A i \in 1..2 : WithinOneUnit(ThereAndBack[i], conversion.arg[i])

\* A pixel position of an image wider than one pixel was converted to a
\* ratio that had to be rounded: multiplied by the width it is not the
\* position but the float next to it.
C33_Witness ==
    /\ conversion.of = "pixel_to_ratio" /\ conversion.returned
    /\ conversion.width > 1
    /\ conversion.arg[1].m # 0
    /\ ThereAndBack[1] # conversion.arg[1]

\* C34: in every reachable state the undo stack and the redo stack together
\* hold at most max_undo_steps (10) snapshots, so neither the push of redo
\* onto the undo stack, which has no bound of its own, nor the push of undo
\* onto the redo stack makes a stack longer than 10.
C34_StacksTogetherBounded ==
    /\ Len(undo_stack) + Len(redo_stack) <= max_undo_steps
    /\ Len(undo_stack) <= max_undo_steps
    /\ Len(redo_stack) <= max_undo_steps

\* A redo has pushed the tenth snapshot onto the undo stack.
C34_Witness ==
    /\ running /\ lastOp = "redo"
    /\ Len(undo_stack) = max_undo_steps
    /\ redo_stack = <<>>

\* ------------------------------------------------------------ Invariants of the position, the files and the store

\* C35: in every reachable state the position is -1, with no image loaded,
\* or an index of the working sequence, 0 .. len - 1, whatever directories
\* were opened and whatever prev/next were dispatched, also from inside the
\* event drain of another prev/next.
C35_PositionValid ==
    running =>
        \/ current_image_index = 0 - 1 /\ pixmap_item = "none"
        \/ current_image_index \in 0..(Len(image_files) - 1)

\* C36: viewing an image does not destroy its saved annotations: when the
\* annotation file of an image is well formed, loading the image and then
\* moving to a neighbour with auto_save on, with no edit in between, leaves
\* a file that describes the same store as before, whether the size of the
\* image was available when it was loaded or not.
C36_ViewingKeepsFile ==
    (running /\ auto_save /\ HasImage) =>
        \A step \in {0 - 1, 1} :
            LET f == annotation_format
                file == FileOf(S, CurrentImage, f)
                shown == load_current_image(S)
                left == Move(shown, step, <<>>, "ok")
            IN  (AwayFromBoundary(shown, step) /\ Decodable(file, f)) =>
                    FileContent(FileOf(left, CurrentImage, f), f)
                        = FileContent(file, f)

\* C37: a format switch leaves the undo stack and the redo stack as they
\* were although it replaces the store by the content of the file of the
\* newly active format; an undo right after the switch therefore restores
\* the newest snapshot, a store recorded under the previous format.
C37_FormatSwitchKeepsHistory ==
    running =>
        \A reply \in Replies, io \in IoResults :
            LET t == toggle_annotation_format(S, reply, io)
            IN  /\ t.undo_stack = undo_stack
                /\ t.redo_stack = redo_stack
                /\ (t.running /\ undo_stack # <<>>) =>
                       /\ undo(t).keypoints_data = Last(undo_stack).val
                       /\ undo(t).annotation_format = Other(annotation_format)

\* The format was switched after an edit of a store loaded from a *.txt
\* file: the store is now the content of the *.json file, which is not what
\* the newest snapshot holds, a store with a point of the *.txt file.
C37_Witness ==
    /\ running /\ HasImage
    /\ lastOp = "toggle_annotation_format"
    /\ annotation_format = "json"
    /\ undo_stack # <<>>
    /\ Last(undo_stack).val # EmptyStore
    /\ Last(undo_stack).val # keypoints_data
    /\ undo(S).keypoints_data = Last(undo_stack).val

\* C38: an add or a move that is aborted because the size of the image is
\* not available leaves the history as it was: the undo stack and the redo
\* stack after the aborted handler are those before it.
C38_AbortedEditKeepsHistory ==
    (running /\ get_image_size(pixmap_item) = "none") =>
        /\ adding_keypoint_id # 0 =>
               \A p \in Points :
                   LET t == mousePressEvent(S, p)
                   IN  t.undo_stack = undo_stack /\ t.redo_stack = redo_stack
        /\ \A kp_id \in DOMAIN view_keypoints, p \in Points :
               LET t == on_keypoint_moved(S, kp_id, p)
               IN  t.undo_stack = undo_stack /\ t.redo_stack = redo_stack

\* C40: whenever the size of the image is not available (no image is
\* loaded, or the image could not be read) the store is empty, in every
\* reachable state, so that the redraw loops of swap, undo and redo never
\* convert a stored coordinate without a size.
C40_NoSizeNoStore ==
    (running /\ get_image_size(pixmap_item) # "ok") =>
        keypoints_data = EmptyStore

\* An image that could not be read is shown, its annotation file in the
\* active format holds points, and none of them is in the store.
C40_Witness ==
    /\ running /\ HasImage
    /\ ~readable[CurrentImage]
    /\ get_image_size(pixmap_item) # "ok"
    /\ FileContent(FileOf(S, CurrentImage, annotation_format),
                   annotation_format) # EmptyStore
    /\ keypoints_data = EmptyStore

\* The coordinates of store d with the number of ids that hold each.
CoordBag(d) ==
    [v \in {d[k] : k \in DOMAIN d} |-> Cardinality({k \in DOMAIN d : d[k] = v})]

\* C39: swap_keypoints is an involution that conserves the data: for every
\* store and ids id1, id2, swapping twice gives the original store, swapping
\* id1 with id2 and id2 with id1 give the same store, and one swap keeps the
\* number of annotated ids and the multiset of stored coordinates.
C39_SwapIsInvolution ==
    running =>
        \A id1 \in SwapIds, id2 \in SwapIds :
            LET once == swap_keypoints(S, id1, id2)
                twice == swap_keypoints(once, id1, id2)
                other == swap_keypoints(S, id2, id1)
            IN  /\ once.running /\ twice.running /\ other.running
                /\ twice.keypoints_data = keypoints_data
                /\ other.keypoints_data = once.keypoints_data
                /\ Cardinality(DOMAIN once.keypoints_data)
                       = Cardinality(DOMAIN keypoints_data)
                /\ CoordBag(once.keypoints_data) = CoordBag(keypoints_data)

\* Points 1 and 68, both annotated, at different places, were swapped: the
\* store holds each coordinate under the other id, and one more swap gives
\* the store before the swap, which is on top of the undo stack.
C39_Witness ==
    /\ running /\ lastOp = "swap" /\ undo_stack # <<>>
    /\ {1, NumKeypoints} \subseteq DOMAIN keypoints_data
    /\ keypoints_data[1] # keypoints_data[NumKeypoints]
    /\ DOMAIN Last(undo_stack).val = DOMAIN keypoints_data
    /\ Last(undo_stack).val[1] = keypoints_data[NumKeypoints]
    /\ Last(undo_stack).val[NumKeypoints] = keypoints_data[1]
    /\ swap_keypoints(S, 1, NumKeypoints).keypoints_data = Last(undo_stack).val
====
